---------------------------- MODULE Spec2Model ----------------------------
(***************************************************************************)
(* Listening-history ingestion of musike: the live tracking session state  *)
(* machine, the catch-up sync, the bulk import and the PostgreSQL tables   *)
(* they write.                                                             *)
(*                                                                         *)
(* Encoding.  A Go string is a sequence of tokens ("" is <<>>, + is \o);   *)
(* a time.Time is a number of milliseconds; a nil pointer is Nil.  A table *)
(* with a primary key is a function from the key to the row; the table     *)
(* listening_history, whose only key is a generated uuid, is the sequence  *)
(* of its rows in insertion order.                                         *)
(***************************************************************************)
EXTENDS Integers, Sequences, FiniteSets, TLC

VARIABLES
    now,                \* wall clock, ms
    clockSteps,         \* number of clock advances so far (bounded)
    activeTracking,     \* map userID -> *UserTracking (Nil: no entry)
    sweep,              \* sessions snapshotted by the running sweep, not yet updated:
                        \* [user, obj], obj = Nil for the object still in the map,
                        \* else the object itself, which the map no longer holds
    artists, albums, tracks, track_artists, listening_history,   \* committed tables
    log,                \* outcomes the code logs or returns
    pc,                 \* position of each multi-step process
    loc,                \* locals of each multi-step process
    syncRuns,           \* number of catch-up sync runs so far (bounded)
    processedCodes,     \* AuthHandler.processedCodes: the codes marked true
    last                \* the operation that produced this state, with its inputs

vars == <<now, clockSteps, activeTracking, sweep, artists, albums, tracks,
          track_artists, listening_history, log, pc, loc, syncRuns, processedCodes,
          last>>

dbVars == <<artists, albums, tracks, track_artists, listening_history>>
trackVars == <<activeTracking, sweep>>

-----------------------------------------------------------------------------
(* Bounds of the model *)

MaxClockSteps == 2
MaxFileLen == 2
MaxSyncRuns == 1
MaxSaves == 1

-----------------------------------------------------------------------------
(* Program constants *)

MinPlayTimeMs == 30000
MaxTimeDiffMs == 120000
MinMsPlayed == 5000

Nil == [nil |-> TRUE]
Err == [err |-> TRUE]

Users == {<<"u1">>, <<"u2">>}
Token(u) == <<"tk">> \o u

-----------------------------------------------------------------------------
(* What the upstream API can answer *)

UpArtist(id) == [ID |-> id, Name |-> <<"n">> \o id]
UpAlbum(id) == [ID |-> id, Name |-> <<"n">> \o id]

\* the track objects of the catalogue: A has one artist, B has two
UpTrackIds == {<<"A">>, <<"B">>}
UpArtistsOf(id) ==
    IF id = <<"A">> THEN <<UpArtist(<<"ar1">>)>>
    ELSE <<UpArtist(<<"ar1">>), UpArtist(<<"ar2">>)>>

UpTrack(id, playing) ==
    [ID |-> id, Name |-> <<"n">> \o id, Artists |-> UpArtistsOf(id),
     Album |-> UpAlbum(<<"al">> \o id), DurationMs |-> 200000,
     Popularity |-> 50, IsPlaying |-> playing]

\* GetCurrentTrack: an error, nothing playing (204 or no item), or a track
CurrentTrackAnswers ==
    {Err, Nil} \cup {UpTrack(id, p) : id \in UpTrackIds, p \in BOOLEAN}

GenreLists == {<<>>, <<"rock">>, <<"pop", "rock">>}
\* GetArtistDetails: an error or the artist with its genres
ArtistAnswers ==
    {Err} \cup {[Name |-> <<"N">>, Genres |-> g, Popularity |-> 70] : g \in GenreLists}

-----------------------------------------------------------------------------
(* The tables inside one transaction.  PostgreSQL aborts a transaction at  *)
(* its first failing statement: every later statement fails and COMMIT     *)
(* rolls back.                                                             *)

Committed ==
    [artists |-> artists, albums |-> albums, tracks |-> tracks,
     track_artists |-> track_artists, listening_history |-> listening_history,
     aborted |-> FALSE]

Abort(tx) == [tx EXCEPT !.aborted = TRUE]

\* no statement fails; otherwise [i, p]: statement p fails for the i-th item
NoFault == [i |-> 0, p |-> "none"]

\* the statements a fault can be injected into
FaultPoints == {"none", "begin", "artist", "album", "track", "link", "history", "commit"}

Upsert(f, k, v) == [x \in DOMAIN f \cup {k} |-> IF x = k THEN v ELSE f[x]]

HasGenres(tx, id) == id \in DOMAIN tx.artists /\ Len(tx.artists[id].genres) > 0

\* UPDATE artists SET popularity = $2 WHERE id = $1 AND popularity != $2
UpdateArtistPopularity(tx, id, popularity, fault) ==
    IF tx.aborted \/ fault = "artist" THEN Abort(tx)
    ELSE IF id \in DOMAIN tx.artists
         THEN [tx EXCEPT !.artists[id].popularity = popularity]
         ELSE tx

UpsertArtistBasicClearing(tx, id, name, popularity, fault) ==
    IF tx.aborted \/ fault = "artist" THEN Abort(tx)
    ELSE [tx EXCEPT !.artists =
             Upsert(@, id, [name |-> name, genres |-> <<>>, popularity |-> popularity])]

\* INSERT INTO artists (id, name, popularity) ... ON CONFLICT (id) DO UPDATE name, popularity
UpsertArtistBasic(tx, id, name, popularity, fault) ==
    IF tx.aborted \/ fault = "artist" THEN Abort(tx)
    ELSE IF id \in DOMAIN tx.artists
         THEN [tx EXCEPT !.artists[id].name = name, !.artists[id].popularity = popularity]
         ELSE [tx EXCEPT !.artists =
                  Upsert(@, id, [name |-> name, genres |-> <<>>, popularity |-> popularity])]

\* INSERT INTO artists (id, name, genres, popularity, image_url) ... ON CONFLICT (id) DO UPDATE all
UpsertArtistFull(tx, id, name, genres, popularity, fault) ==
    IF tx.aborted \/ fault = "artist" THEN Abort(tx)
    ELSE [tx EXCEPT !.artists =
             Upsert(@, id, [name |-> name, genres |-> genres, popularity |-> popularity])]

\* the genres check of saveArtistWithDetails: err == nil && genresCount > 0
AlreadyEnriched(tx, id) == ~tx.aborted /\ HasGenres(tx, id)

enrichArtistAlways(tx, enriched, id, name, popularity, up, fault) ==
    IF up = Err THEN UpsertArtistBasic(tx, id, name, popularity, fault)
    ELSE UpsertArtistFull(tx, id, up.Name, up.Genres, up.Popularity, fault)

\* what saveArtistWithDetails writes once its genres check answered `enriched`,
\* given the answer `up` of GetArtistDetails
enrichArtist(tx, enriched, id, name, popularity, up, fault) ==
    IF enriched THEN UpdateArtistPopularity(tx, id, popularity, fault)
    ELSE IF up = Err THEN UpsertArtistBasic(tx, id, name, popularity, fault)
    ELSE UpsertArtistFull(tx, id, up.Name, up.Genres, up.Popularity, fault)

\* saveArtistWithDetails with no other transaction in between
saveArtistWithDetails(tx, id, name, popularity, up, fault) ==
    enrichArtist(tx, AlreadyEnriched(tx, id), id, name, popularity, up, fault)

\* the loop over the track's artists; ups[i] answers the i-th GetArtistDetails
RECURSIVE saveArtists(_, _, _, _, _, _)
saveArtists(tx, as, popularity, ups, fault, i) ==
    IF i > Len(as) THEN tx
    ELSE saveArtists(saveArtistWithDetails(tx, as[i].ID, as[i].Name, popularity, ups[i], fault),
                     as, popularity, ups, fault, i + 1)

\* INSERT INTO albums ... ON CONFLICT (id) DO UPDATE SET name, image_url
UpsertAlbum(tx, album, fault) ==
    IF tx.aborted \/ fault = "album" THEN Abort(tx)
    ELSE [tx EXCEPT !.albums = Upsert(@, album.ID, [name |-> album.Name])]

\* INSERT INTO tracks ... ON CONFLICT (id) DO UPDATE SET name, duration_ms, popularity, preview_url
UpsertTrack(tx, t, fault) ==
    IF tx.aborted \/ fault = "track" THEN Abort(tx)
    ELSE IF t.ID \in DOMAIN tx.tracks
         THEN [tx EXCEPT !.tracks[t.ID].name = t.Name,
                         !.tracks[t.ID].duration_ms = t.DurationMs,
                         !.tracks[t.ID].popularity = t.Popularity]
         ELSE [tx EXCEPT !.tracks =
                  Upsert(@, t.ID, [name |-> t.Name, album_id |-> t.Album.ID,
                                   duration_ms |-> t.DurationMs, popularity |-> t.Popularity])]

\* INSERT INTO track_artists ... ON CONFLICT DO NOTHING, for every artist; errors are only logged
RECURSIVE LinkArtists(_, _, _, _)
LinkArtists(tx, t, fault, i) ==
    IF i > Len(t.Artists) THEN tx
    ELSE LinkArtists(IF tx.aborted \/ fault = "link" THEN Abort(tx)
                     ELSE [tx EXCEPT !.track_artists = @ \cup {<<t.ID, t.Artists[i].ID>>}],
                     t, fault, i + 1)

\* INSERT INTO listening_history (user_id, track_id, played_at, context_type, context_uri)
\* no ON CONFLICT clause; listened_duration_ms takes its column default 0;
\* track_id references tracks(id)
InsertHistory(tx, user, trackId, playedAt, fault) ==
    IF tx.aborted \/ fault = "history" THEN Abort(tx)
    ELSE IF trackId \notin DOMAIN tx.tracks THEN Abort(tx)
    ELSE [tx EXCEPT !.listening_history =
             Append(@, [user_id |-> user, track_id |-> trackId, played_at |-> playedAt,
                        listened_duration_ms |-> 0])]

\* the statements of saveListeningSession / saveRecentlyPlayedTrack after BeginTx,
\* up to the first checked error; the result is aborted when the function returned
\* early (deferred Rollback) or when Commit fails
SaveEvent(db, user, t, playedAt, ups, fault) ==
    LET t1 == saveArtists(db, t.Artists, t.Popularity, ups, fault, 1)
        t2 == UpsertAlbum(t1, t.Album, fault)
        t3 == IF t2.aborted THEN t2 ELSE UpsertTrack(t2, t, fault)
        t4 == IF t3.aborted THEN t3 ELSE LinkArtists(t3, t, fault, 1)
        t5 == IF t3.aborted THEN t3 ELSE InsertHistory(t4, user, t.ID, playedAt, fault)
    IN  IF fault \in {"begin", "commit"} THEN Abort(db) ELSE t5

\* the same on the committed tables
RecordEvent(user, t, playedAt, ups, fault) ==
    SaveEvent(Committed, user, t, playedAt, ups, fault)

InstallWritten(tx) ==
    /\ artists' = tx.artists
    /\ albums' = tx.albums
    /\ tracks' = tx.tracks
    /\ track_artists' = tx.track_artists
    /\ listening_history' = tx.listening_history

InstallHistoryOnly(tx) ==
    IF tx.aborted THEN UNCHANGED dbVars
    ELSE /\ listening_history' = tx.listening_history
         /\ UNCHANGED <<artists, albums, tracks, track_artists>>

\* what Commit (or the deferred Rollback) leaves in the tables
Install(tx) ==
    IF tx.aborted THEN UNCHANGED dbVars
    ELSE /\ artists' = tx.artists
         /\ albums' = tx.albums
         /\ tracks' = tx.tracks
         /\ track_artists' = tx.track_artists
         /\ listening_history' = tx.listening_history

-----------------------------------------------------------------------------
(* Live tracking: services/tracking.go *)

DwellDeltas == {10000, 19999, 20000}
GapDeltas == {119999, 120000, 120001}

NewSession(u, token) ==
    [UserID |-> u, SpotifyToken |-> token, LastTrack |-> Nil, SessionStart |-> now,
     TotalPlayTime |-> 0, LastUpdated |-> now, IsActive |-> TRUE]

\* the answers of the GetArtistDetails calls one RecordEvent may make
ArtistAnswerSeqs == [1..2 -> ArtistAnswers]

SessionFlushesAbove(s) == s.LastTrack # Nil /\ s.TotalPlayTime > MinPlayTimeMs

\* saveListeningSession passes both early returns
SessionFlushes(s) == s.LastTrack # Nil /\ s.TotalPlayTime >= MinPlayTimeMs

saveListeningSession(s, ups, fault) ==
    IF ~SessionFlushes(s) THEN Committed
    ELSE RecordEvent(s.UserID, s.LastTrack, s.SessionStart, ups, fault)

\* the line saveListeningSession logs last
FlushLog(s, tx) ==
    IF ~SessionFlushes(s) THEN {}
    ELSE {[msg |-> IF tx.aborted THEN "Error saving listening session"
                   ELSE "Saved listening session",
           user |-> s.UserID, track |-> s.LastTrack.ID]}

\* the record of one operation: the session before and after it, the number of
\* listening_history rows before it, its inputs and the time it ran at; stale
\* tells a tick on a session the map no longer held
Op(op, u, pre, post, fault, answer) ==
    [op |-> op, user |-> u, pre |-> pre, post |-> post,
     rows0 |-> Len(listening_history), fault |-> fault, answer |-> answer, at |-> now,
     stale |-> FALSE]

\* the map drops its pointer to u's session s: a running sweep keeps its own
Detach(u, s) ==
    {IF e.user = u /\ e.obj = Nil THEN [user |-> u, obj |-> s] ELSE e : e \in sweep}

StartTrackingFlushing(u) ==
    LET s == activeTracking[u]
        tx == IF s = Nil THEN Committed ELSE saveListeningSession(s, [i \in 1..2 |-> Err], "none")
    IN  /\ activeTracking' = [activeTracking EXCEPT ![u] = NewSession(u, Token(u))]
        /\ sweep' = Detach(u, s)
        /\ Install(tx)
        /\ log' = log \cup (IF s = Nil THEN {} ELSE FlushLog(s, tx))
        /\ last' = Op("StartTracking", u, s, NewSession(u, Token(u)), "none", Nil)
        /\ UNCHANGED <<processedCodes, now, clockSteps, pc, loc, syncRuns>>

\* StartTracking: under the write lock, the map entry of u becomes a new session
StartTracking(u) ==
    /\ activeTracking' = [activeTracking EXCEPT ![u] = NewSession(u, Token(u))]
    /\ sweep' = Detach(u, activeTracking[u])
    /\ last' = Op("StartTracking", u, activeTracking[u], NewSession(u, Token(u)), "none", Nil)
    /\ UNCHANGED <<processedCodes, now, clockSteps, dbVars, log, pc, loc, syncRuns>>

DeletedUnlessDropped(m, u) ==
    IF m[u].LastTrack # Nil /\ m[u].TotalPlayTime < MinPlayTimeMs THEN m ELSE [m EXCEPT ![u] = Nil]

DeletedMarked(m, u) == [m EXCEPT ![u].IsActive = FALSE]

\* delete(s.activeTracking, userID)
Deleted(m, u) == [m EXCEPT ![u] = Nil]

StopTracking(u, ups, fault) ==
    LET s == activeTracking[u] IN
    IF s = Nil
    THEN /\ last' = Op("StopTracking", u, Nil, Nil, "none", Nil)
         /\ UNCHANGED <<processedCodes, now, clockSteps, trackVars, dbVars, log, pc, loc, syncRuns>>
    ELSE LET tx == IF s.LastTrack # Nil THEN saveListeningSession(s, ups, fault)
                   ELSE Committed
         IN  /\ activeTracking' = Deleted(activeTracking, u)
             /\ sweep' = Detach(u, [s EXCEPT !.IsActive = FALSE])
             /\ Install(tx)
             /\ log' = log \cup FlushLog(s, tx)
             /\ last' = Op("StopTracking", u, s, [s EXCEPT !.IsActive = FALSE],
                           IF SessionFlushes(s) THEN fault ELSE "none", Nil)
             /\ UNCHANGED <<processedCodes, now, clockSteps, pc, loc, syncRuns>>

\* updateAllActiveTracking, under the read lock: copy the active sessions
SweepBegin ==
    /\ sweep = {}
    /\ sweep' = {[user |-> u, obj |-> Nil] :
                    u \in {v \in Users : activeTracking[v] # Nil /\ activeTracking[v].IsActive}}
    /\ sweep' # {}
    /\ last' = Op("SweepBegin", <<>>, Nil, Nil, "none", Nil)
    /\ UNCHANGED <<processedCodes, now, clockSteps, activeTracking, dbVars, log, pc, loc, syncRuns>>

CreditPaused(s, playing) ==
    IF now - s.LastUpdated > 0 /\ now - s.LastUpdated < MaxTimeDiffMs
    THEN now - s.LastUpdated ELSE 0

CreditClamped(s, playing) ==
    IF playing /\ now - s.LastUpdated > 0
    THEN (IF now - s.LastUpdated < MaxTimeDiffMs THEN now - s.LastUpdated ELSE MaxTimeDiffMs)
    ELSE 0

\* the play time one tick credits: timeDiff > 0 && timeDiff < 2*time.Minute
Credit(s, playing) ==
    IF playing /\ now - s.LastUpdated > 0 /\ now - s.LastUpdated < MaxTimeDiffMs
    THEN now - s.LastUpdated ELSE 0

UpdatedBackdated(s, answer) ==
    IF answer = Nil
    THEN [s EXCEPT !.LastTrack = Nil, !.LastUpdated = 0]
    ELSE [s EXCEPT !.LastTrack = answer, !.LastUpdated = 0]

UpdatedKeepsTrack(s, answer) ==
    IF answer = Nil
    THEN [s EXCEPT !.LastUpdated = now]
    ELSE [s EXCEPT !.LastTrack = answer, !.LastUpdated = now]

\* the session after updateUserTracking got `answer` (a track or Nil) at time now
Updated(s, answer) ==
    IF answer = Nil
    THEN [s EXCEPT !.LastTrack = Nil, !.LastUpdated = now]
    ELSE LET changed == s.LastTrack = Nil \/ s.LastTrack.ID # answer.ID
             s1 == IF changed
                   THEN [s EXCEPT !.LastTrack = answer, !.SessionStart = now,
                                  !.TotalPlayTime = 0]
                   ELSE s
         IN  [s1 EXCEPT !.TotalPlayTime = @ + Credit(s, answer.IsPlaying),
                        !.LastUpdated = now]

\* the tick flushes the session's track: upstream reports none or another one
TickFlushes(s, answer) ==
    /\ s.LastTrack # Nil
    /\ (answer = Nil \/ s.LastTrack.ID # answer.ID)

\* the object a snapshot entry points to
Target(e) == IF e.obj = Nil THEN activeTracking[e.user] ELSE e.obj

RemainingNone(sw, e) == {}

\* the loop of updateAllActiveTracking goes on with the sessions after e,
\* whatever updateUserTracking did with e
Remaining(sw, e) == sw \ {e}

\* updateUserTracking on one session of the snapshot
UpdateUserTracking(e, answer, ups, fault) ==
    LET s == Target(e) IN
    /\ e \in sweep
    /\ sweep' = Remaining(sweep, e)
    /\ last' = [Op("UpdateUserTracking", s.UserID, s,
                   IF answer = Err THEN s ELSE Updated(s, answer),
                   IF answer # Err /\ TickFlushes(s, answer) /\ SessionFlushes(s)
                   THEN fault ELSE "none", answer)
                EXCEPT !.stale = e.obj # Nil]
    /\ IF answer = Err
       THEN UNCHANGED <<activeTracking, dbVars, log>>
       ELSE \E tx \in {IF TickFlushes(s, answer) THEN saveListeningSession(s, ups, fault)
                      ELSE Committed} :
                /\ activeTracking' = IF e.obj = Nil
                                     THEN [activeTracking EXCEPT ![e.user] = Updated(s, answer)]
                                     ELSE activeTracking
                /\ Install(tx)
                /\ log' = log \cup (IF TickFlushes(s, answer) THEN FlushLog(s, tx) ELSE {})
    /\ UNCHANGED <<processedCodes, now, clockSteps, pc, loc, syncRuns>>

Advance(d) ==
    /\ clockSteps < MaxClockSteps
    /\ now' = now + d
    /\ clockSteps' = clockSteps + 1
    /\ last' = [Op("Advance", <<>>, Nil, Nil, "none", Nil) EXCEPT !.at = now + d]
    /\ UNCHANGED <<processedCodes, trackVars, dbVars, log, pc, loc, syncRuns>>

EmptyTable == [x \in {} |-> Nil]

\* the goroutines that can be saving at the same time: the live flush
\* (saveListeningSession), the save of the scheduler's sync and the save of a
\* ForceFullSync request (saveRecentlyPlayedTrack)
Savers == {"flush", "sync", "force"}

IdleLoc == [track |-> Nil, user |-> <<>>, playedAt |-> 0, i |-> 0, writes |-> EmptyTable,
            enriched |-> FALSE, count |-> 0, runs |-> 0]

InitDb ==
    /\ artists = EmptyTable
    /\ albums = EmptyTable
    /\ tracks = EmptyTable
    /\ track_artists = {}
    /\ listening_history = <<>>

InitCommon ==
    /\ now = 0
    /\ clockSteps = 0
    /\ activeTracking = [u \in Users |-> Nil]
    /\ sweep = {}
    /\ InitDb
    /\ log = {}
    /\ pc = [p \in Savers |-> "idle"]
    /\ loc = [p \in Savers |-> IdleLoc]
    /\ syncRuns = 0
    /\ processedCodes = {}
    /\ last = Op("init", <<>>, Nil, Nil, "none", Nil)

(* The live tracking state machine of one user, with its flushes *)
TrackUsers == {<<"u1">>}
TrackFaults == {"none", "history"}
TrackUps == {[i \in 1..2 |-> Err]}

NextTrack ==
    \/ \E u \in TrackUsers : StartTracking(u)
    \/ \E u \in TrackUsers, ups \in TrackUps, f \in TrackFaults : StopTracking(u, ups, f)
    \/ SweepBegin
    \/ \E e \in sweep, a \in CurrentTrackAnswers, ups \in TrackUps, f \in TrackFaults :
          UpdateUserTracking(e, a, ups, f)
    \/ \E d \in DwellDeltas : Advance(d)

SpecTrack == InitCommon /\ [][NextTrack]_vars

(* The sweep over the sessions of two users, upstream failing for some *)
SweepAnswers == {Err, UpTrack(<<"A">>, TRUE)}
SweepDeltas == {40000}

NextSweep ==
    \/ \E u \in Users : StartTracking(u)
    \/ SweepBegin
    \/ \E e \in sweep, a \in SweepAnswers, ups \in TrackUps :
          UpdateUserTracking(e, a, ups, "none")
    \/ \E d \in SweepDeltas : Advance(d)

SpecSweep == InitCommon /\ [][NextSweep]_vars

(* The same machine with the clock stepping around the two-minute ceiling *)
NextGap ==
    \/ \E u \in TrackUsers : StartTracking(u)
    \/ \E u \in TrackUsers, ups \in TrackUps : StopTracking(u, ups, "none")
    \/ SweepBegin
    \/ \E e \in sweep, a \in CurrentTrackAnswers, ups \in TrackUps :
          UpdateUserTracking(e, a, ups, "none")
    \/ \E d \in GapDeltas : Advance(d)

SpecGap == InitCommon /\ [][NextGap]_vars

-----------------------------------------------------------------------------
(* Catch-up sync: syncUserRecentlyPlayed and saveRecentlyPlayedTrack *)

PageLimit == 50
MaxFetchMore == 3 * PageLimit
MaxFetch == 100

\* the instant of the k-th play of the upstream history (1 is the oldest)
PlayGapMs == 20000
PlayedAtOf(k) == PlayGapMs * k

\* the k-th play as the recently-played endpoint reports it; a world can make
\* one play odd: reported without a track object, or with a played_at that
\* is not RFC 3339
RecentItem(k, w) ==
    [Track |-> IF w.oddK = k /\ w.odd = "niltrack" THEN Nil
               ELSE UpTrack(IF k % 2 = 1 THEN <<"A">> ELSE <<"B">>, FALSE),
     PlayedAt |-> [layout |-> IF w.oddK = k /\ w.odd = "badtime" THEN "bad" ELSE "rfc3339",
                   t |-> PlayedAtOf(k)]]

\* the history of a world, most recent play first
RecentHistory(w) == [i \in 1..w.n |-> RecentItem(w.n - i + 1, w)]

\* how upstream reads the boundary of a request
InWindow(w, t, after) ==
    IF after <= 0 THEN TRUE
    ELSE IF w.mode = "after" THEN t > after
    ELSE IF w.mode = "before" THEN t < after
    ELSE t <= after

FirstN(q, n) == IF Len(q) <= n THEN q ELSE SubSeq(q, 1, n)

\* GetRecentlyPlayed: the req-th request of a run; an error or at most limit items
GetRecentlyPlayed(w, limit, after, req) ==
    IF w.failAt = req THEN [err |-> TRUE, Items |-> <<>>]
    ELSE [err |-> FALSE,
          Items |-> FirstN(SelectSeq(RecentHistory(w),
                                     LAMBDA it : InWindow(w, it.PlayedAt.t, after)), limit)]

\* time.Parse(time.RFC3339, s)
ParseRFC3339(s) ==
    IF s.layout = "rfc3339" THEN [err |-> FALSE, t |-> s.t] ELSE [err |-> TRUE, t |-> 0]

\* item.Track.ID + "|" + item.PlayedAt
UniqueKey(item) == <<item.Track.ID, "|", item.PlayedAt>>

SeenNever(processedTracks, key) == FALSE

\* processedTracks[uniqueKey]
Seen(processedTracks, key) == key \in processedTracks

\* the loop over the items of one page
RECURSIVE AddBatch(_, _, _)
AddBatch(acc, items, i) ==
    IF i > Len(items) THEN acc
    ELSE IF items[i].Track = Nil THEN AddBatch(acc, items, i + 1)
    ELSE IF Seen(acc.processedTracks, UniqueKey(items[i])) THEN AddBatch(acc, items, i + 1)
    ELSE AddBatch([acc EXCEPT !.processedTracks = @ \cup {UniqueKey(items[i])},
                              !.allTracks = Append(@, items[i])],
                  items, i + 1)

\* the rest of one iteration of the fetch loop, once the page `recent` arrived
RECURSIVE FetchPages(_, _, _, _)
FetchedPage(w, acc, afterTimestamp, req, limit, recent) ==
    IF recent.err THEN [acc EXCEPT !.requests = req]
    ELSE IF Len(recent.Items) = 0 THEN [acc EXCEPT !.requests = req]
    ELSE IF Len(recent.Items) < limit
         THEN [AddBatch(acc, recent.Items, 1) EXCEPT
                  !.totalFetched = @ + Len(recent.Items), !.fetched = @ \o recent.Items,
                  !.requests = req]
    ELSE FetchPages(w,
                    [AddBatch(acc, recent.Items, 1) EXCEPT
                        !.totalFetched = @ + Len(recent.Items), !.fetched = @ \o recent.Items,
                        !.requests = req],
                    IF ParseRFC3339(recent.Items[Len(recent.Items)].PlayedAt).err
                    THEN afterTimestamp
                    ELSE ParseRFC3339(recent.Items[Len(recent.Items)].PlayedAt).t,
                    req + 1)

\* limit := 50, or what is left up to 100
PageSize(totalFetched) ==
    IF totalFetched + PageLimit > MaxFetch THEN MaxFetch - totalFetched ELSE PageLimit

\* the fetch loop: for totalFetched < 100 { ... }
FetchPages(w, acc, afterTimestamp, req) ==
    IF acc.totalFetched >= MaxFetch THEN acc
    ELSE FetchedPage(w, acc, afterTimestamp, req, PageSize(acc.totalFetched),
                     GetRecentlyPlayed(w, PageSize(acc.totalFetched), afterTimestamp, req))

\* SELECT COUNT(*) FROM listening_history WHERE user_id, track_id, played_at
CountRows(h, user, trackId, playedAt) ==
    Cardinality({i \in 1..Len(h) : /\ h[i].user_id = user /\ h[i].track_id = trackId
                                    /\ h[i].played_at = playedAt})

EndedAsLeft(db, tx) == tx

\* the tables after a transaction ended: its own when it committed
Ended(db, tx) == IF tx.aborted THEN db ELSE tx

\* saveRecentlyPlayedTrack: the tables it leaves
saveRecentlyPlayedTrack(db, user, item, ups, fault) ==
    IF item.Track = Nil THEN db
    ELSE IF ParseRFC3339(item.PlayedAt).err THEN db
    ELSE IF fault = "count" THEN db
    ELSE IF CountRows(db.listening_history, user, item.Track.ID,
                      ParseRFC3339(item.PlayedAt).t) > 0 THEN db
    ELSE Ended(db, SaveEvent(db, user, item.Track, ParseRFC3339(item.PlayedAt).t, ups, fault))

\* the state of the save loop after saveRecentlyPlayedTrack was called for item
\* and left the tables db1
SavedItem(st, user, item, db1) ==
    [db |-> db1, saved |-> Append(st.saved, item),
     logs |-> IF db1 = st.db THEN st.logs
              ELSE st.logs \cup {[msg |-> "Synced recently played track",
                                  user |-> user, track |-> item.Track.ID]}]

\* one iteration of the save loop, f the statement that fails in it
SaveItem(st, user, item, ups, f) ==
    IF ParseRFC3339(item.PlayedAt).err THEN st
    ELSE IF f = "count" THEN st
    ELSE IF CountRows(st.db.listening_history, user, item.Track.ID,
                      ParseRFC3339(item.PlayedAt).t) # 0 THEN st
    ELSE SavedItem(st, user, item, saveRecentlyPlayedTrack(st.db, user, item, ups, f))

RECURSIVE SaveNewForward(_, _, _, _, _, _, _)
UpperHalfForward(lower, user, allTracks, ups, fault, mid, hi) ==
    IF lower.db.aborted THEN lower
    ELSE SaveNewForward(lower, user, allTracks, ups, fault, mid, hi)

SaveNewForward(st, user, allTracks, ups, fault, lo, hi) ==
    IF lo > hi THEN st
    ELSE IF lo = hi
         THEN SaveItem(st, user, allTracks[lo], ups, IF fault.i = lo THEN fault.p ELSE "none")
    ELSE UpperHalfForward(SaveNewForward(st, user, allTracks, ups, fault, lo, (lo + hi) \div 2),
                          user, allTracks, ups, fault, (lo + hi) \div 2 + 1, hi)

\* the save loop over the positions hi down to lo of allTracks: the upper half,
\* then the lower half from the tables the upper half left (always committed
\* ones: a failed save leaves st.db as it was); fault.i is the position whose
\* save meets the failing statement fault.p
RECURSIVE SaveNew(_, _, _, _, _, _, _)
LowerHalf(upper, user, allTracks, ups, fault, lo, mid) ==
    IF upper.db.aborted THEN upper
    ELSE SaveNew(upper, user, allTracks, ups, fault, lo, mid)

SaveNew(st, user, allTracks, ups, fault, lo, hi) ==
    IF lo > hi THEN st
    ELSE IF lo = hi
         THEN SaveItem(st, user, allTracks[lo], ups, IF fault.i = lo THEN fault.p ELSE "none")
    ELSE LowerHalf(SaveNew(st, user, allTracks, ups, fault, (lo + hi) \div 2 + 1, hi),
                   user, allTracks, ups, fault, lo, (lo + hi) \div 2)

\* what one run fetched and what it saved
RunOf(acc, st) ==
    [db |-> st.db, logs |-> st.logs, saved |-> st.saved, allTracks |-> acc.allTracks,
     fetched |-> acc.fetched, requests |-> acc.requests, token |-> acc.token]

SaveFetched(db, user, acc, ups, fault) ==
    RunOf(acc, SaveNew([db |-> db, saved |-> <<>>, logs |-> {}],
                       user, acc.allTracks, ups, fault, 1, Len(acc.allTracks)))

\* syncUserRecentlyPlayed for the session s, from the tables db
syncUserRecentlyPlayed(db, s, w, ups, fault) ==
    SaveFetched(db, s.UserID,
                FetchPages(w, [allTracks |-> <<>>, processedTracks |-> {}, totalFetched |-> 0,
                               fetched |-> <<>>, requests |-> 0, token |-> s.SpotifyToken],
                           0, 1),
                ups, fault)

\* the record of one sync: its inputs, the tables and the session map it
\* started from, its first run and the error it returned
SyncOp(op, u, w, fault, run, error) ==
    [op |-> op, user |-> u, world |-> w, fault |-> fault, db0 |-> Committed,
     map0 |-> activeTracking, run |-> run, error |-> error]

\* no request made, nothing saved
NoRun == [db |-> Committed, logs |-> {}, saved |-> <<>>, allTracks |-> <<>>,
          fetched |-> <<>>, requests |-> 0, token |-> <<>>]

\* the tables and the log after the runs of one sync, run being the first of them
Synced(op, u, w, fault, db, logs, run, error) ==
    /\ Install(db)
    /\ log' = log \cup logs
    /\ last' = SyncOp(op, u, w, fault, run, error)

forceFullSyncAnyway(db, m, u, w, ups, fault) ==
    [error |-> "nil",
     run |-> syncUserRecentlyPlayed(db, IF m[u] = Nil THEN NewSession(u, Token(u)) ELSE m[u],
                                    w, ups, fault)]

\* the service's ForceFullSync on the session map m: the error it returns and
\* the run it made; refused unless the user has an active session
forceFullSync(db, m, u, w, ups, fault) ==
    IF m[u] = Nil \/ ~m[u].IsActive
    THEN [error |-> "not being tracked", run |-> NoRun]
    ELSE [error |-> "nil", run |-> syncUserRecentlyPlayed(db, m[u], w, ups, fault)]

ForceFullSync(u, w, ups, fault) ==
    /\ syncRuns < MaxSyncRuns
    /\ syncRuns' = syncRuns + 1
    /\ \E r \in {forceFullSync(Committed, activeTracking, u, w, ups, fault)} :
          Synced("ForceFullSync", u, w, IF r.error = "nil" THEN fault ELSE NoFault,
                 r.run.db, r.run.logs, r.run, r.error)
    /\ UNCHANGED <<processedCodes, now, clockSteps, trackVars, pc, loc>>

\* syncRecentlyPlayedTracks of the scheduler: the active sessions, one after the other
RECURSIVE SyncAll(_, _, _, _, _)
SyncedOne(st, run, order, w, ups, fault) ==
    SyncAll([db |-> run.db, logs |-> st.logs \cup run.logs, runs |-> Append(st.runs, run)],
            Tail(order), w, ups, fault)

SyncAll(st, order, w, ups, fault) ==
    IF order = <<>> THEN st
    ELSE SyncedOne(st, syncUserRecentlyPlayed(st.db, activeTracking[Head(order)], w, ups, fault),
                   order, w, ups, fault)

\* the orders a range over the map can visit the set S in
Orders(S) == {q \in [1..Cardinality(S) -> S] : \A i, j \in 1..Cardinality(S) : q[i] = q[j] => i = j}

syncRecentlyPlayedTracks(order, w, ups, fault) ==
    /\ syncRuns < MaxSyncRuns
    /\ syncRuns' = syncRuns + 1
    /\ order \in Orders({u \in Users : activeTracking[u] # Nil /\ activeTracking[u].IsActive})
    /\ order # <<>>
    /\ \E st \in {SyncAll([db |-> Committed, logs |-> {}, runs |-> <<>>], order, w, ups, fault)} :
          Synced("syncRecentlyPlayedTracks", Head(order), w, fault, st.db, st.logs, st.runs[1],
                 "nil")
    /\ UNCHANGED <<processedCodes, now, clockSteps, trackVars, pc, loc>>

(* Catch-up syncs of one user against a few upstream histories *)
World(n, mode, oddK, odd, failAt) ==
    [n |-> n, mode |-> mode, oddK |-> oddK, odd |-> odd, failAt |-> failAt]

SyncWorlds ==
    {World(0, "after", 0, "none", 0),
     World(1, "after", 0, "none", 0),
     World(50, "after", 1, "badtime", 0),
     World(51, "before", 2, "niltrack", 0),
     World(51, "upto", 0, "none", 2),
     World(101, "after", 0, "none", 0),
     World(101, "before", 0, "none", 0),
     World(101, "upto", 0, "none", 0)}

SyncFaults == {NoFault, [i |-> 1, p |-> "history"], [i |-> 2, p |-> "count"]}

NextSync ==
    \/ \E u \in TrackUsers : StartTracking(u)
    \/ \E u \in TrackUsers, ups \in TrackUps : StopTracking(u, ups, "none")
    \/ \E u \in TrackUsers, w \in SyncWorlds, ups \in TrackUps, f \in SyncFaults :
          ForceFullSync(u, w, ups, f)
    \/ \E order \in Orders(TrackUsers), w \in SyncWorlds, ups \in TrackUps, f \in SyncFaults :
          syncRecentlyPlayedTracks(order, w, ups, f)

SpecSync == InitCommon /\ [][NextSync]_vars

-----------------------------------------------------------------------------
(* Bulk import: handlers/import.go *)

\* strings.ToLower and strings.ReplaceAll(s, " ", "_"), token by token
UpperToks == <<"A", "B", "K", "L", "M", "P", "T", "W", "X", "Y", "Z">>
LowerToks == <<"a", "b", "k", "l", "m", "p", "t", "w", "x", "y", "z">>
LowerTok(c) ==
    IF \E i \in 1..Len(UpperToks) : UpperToks[i] = c
    THEN LowerToks[CHOOSE i \in 1..Len(UpperToks) : UpperToks[i] = c]
    ELSE c
UnderTok(c) == IF c = " " THEN "_" ELSE c
Normalized(name) == [i \in 1..Len(name) |-> UnderTok(LowerTok(name[i]))]

generateArtistID(name) == IF name = <<>> THEN <<>> ELSE <<"artist_">> \o Normalized(name)
generateAlbumID(name) == IF name = <<>> THEN <<>> ELSE <<"album_">> \o Normalized(name)

\* a URI is the sequence of its ":"-separated parts (strings.Split); "" is <<>>
extractTrackIDFromURI(uri) ==
    IF uri = <<>> THEN <<>>
    ELSE IF Len(uri) >= 3 /\ uri[1] = "spotify" /\ uri[2] = "track" THEN <<uri[3]>>
    ELSE <<>>

\* a timestamp string is [layout, t]: the first layout that parses it and the
\* instant it denotes; the three attempts are made in order
ParseSpotifyTimestampToLocal(ts) ==
    IF ts.layout = "rfc3339" THEN [err |-> FALSE, t |-> ts.t]
    ELSE IF ts.layout = "z" THEN [err |-> FALSE, t |-> ts.t]
    ELSE IF ts.layout = "bare" THEN [err |-> FALSE, t |-> ts.t]
    ELSE [err |-> TRUE, t |-> 0]

ValidLoose(stream) == stream.TrackName # <<>> /\ stream.ArtistName # <<>>

\* the validity filter of processJSONFile
Valid(stream) ==
    stream.MsPlayed >= MinMsPlayed /\ stream.TrackName # <<>> /\ stream.ArtistName # <<>>

processJSONFile(data) == SelectSeq(data, Valid)

\* init.sql declares no unique constraint on listening_history
\* (user_id, track_id, played_at)
HistoryUniqueKey == FALSE

\* the import's statements; ON CONFLICT ... DO NOTHING keeps an existing row
InsertArtistIfAbsent(tx, id, name, fault) ==
    IF tx.aborted \/ fault = "artist" THEN Abort(tx)
    ELSE IF id \in DOMAIN tx.artists THEN tx
    ELSE [tx EXCEPT !.artists = Upsert(@, id, [name |-> name, genres |-> <<>>, popularity |-> 0])]

InsertAlbumIfAbsent(tx, id, name, fault) ==
    IF tx.aborted \/ fault = "album" THEN Abort(tx)
    ELSE IF id \in DOMAIN tx.albums THEN tx
    ELSE [tx EXCEPT !.albums = Upsert(@, id, [name |-> name])]

\* album_id references albums(id); the nil *string (NULL) is <<>> here, which is
\* also the only albumID the code replaces by nil
InsertTrackIfAbsent(tx, id, name, albumId, fault) ==
    IF tx.aborted \/ fault = "track" THEN Abort(tx)
    ELSE IF id \in DOMAIN tx.tracks THEN tx
    ELSE IF albumId # <<>> /\ albumId \notin DOMAIN tx.albums THEN Abort(tx)
    ELSE [tx EXCEPT !.tracks =
             Upsert(@, id, [name |-> name, album_id |-> albumId,
                            duration_ms |-> 0, popularity |-> 0])]

\* both columns are foreign keys
InsertLinkIfAbsent(tx, trackId, artistId, fault) ==
    IF tx.aborted \/ fault = "link" THEN Abort(tx)
    ELSE IF <<trackId, artistId>> \in tx.track_artists THEN tx
    ELSE IF trackId \notin DOMAIN tx.tracks \/ artistId \notin DOMAIN tx.artists THEN Abort(tx)
    ELSE [tx EXCEPT !.track_artists = @ \cup {<<trackId, artistId>>}]

HasRow(h, user, trackId, playedAt) ==
    \E i \in 1..Len(h) : /\ h[i].user_id = user /\ h[i].track_id = trackId
                          /\ h[i].played_at = playedAt

\* INSERT INTO listening_history ... ON CONFLICT (user_id, track_id, played_at) DO NOTHING:
\* PostgreSQL rejects the statement (42P10) when no unique index matches the columns
InsertHistoryOnConflict(tx, user, trackId, playedAt, ms, fault) ==
    IF tx.aborted \/ fault = "history" \/ ~HistoryUniqueKey THEN Abort(tx)
    ELSE IF HasRow(tx.listening_history, user, trackId, playedAt) THEN tx
    ELSE IF trackId \notin DOMAIN tx.tracks THEN Abort(tx)
    ELSE [tx EXCEPT !.listening_history =
             Append(@, [user_id |-> user, track_id |-> trackId, played_at |-> playedAt,
                        listened_duration_ms |-> ms])]

\* trackExists: err == nil && exists
trackExists(trackId, tx) == ~tx.aborted /\ trackId \in DOMAIN tx.tracks

\* one iteration of the loop of saveToDatabase; st = [tx, ai, al, ti] holds the
\* transaction and the maps artistsInserted, albumsInserted, tracksInserted;
\* fault names the statement that fails in this iteration
SaveStream(st, user, stream, fault) ==
    LET trackID == extractTrackIDFromURI(stream.SpotifyTrackURI)
        artistID == generateArtistID(stream.ArtistName)
        albumID == generateAlbumID(stream.AlbumName)
        playedAt == ParseSpotifyTimestampToLocal(stream.Timestamp)
        doArtist == artistID \notin st.ai /\ stream.ArtistName # <<>>
        t1 == IF doArtist THEN InsertArtistIfAbsent(st.tx, artistID, stream.ArtistName, fault)
              ELSE st.tx
        ai1 == IF doArtist /\ ~t1.aborted THEN st.ai \cup {artistID} ELSE st.ai
        doAlbum == albumID \notin st.al /\ stream.AlbumName # <<>>
        t2 == IF doAlbum THEN InsertAlbumIfAbsent(t1, albumID, stream.AlbumName, fault) ELSE t1
        al1 == IF doAlbum /\ ~t2.aborted THEN st.al \cup {albumID} ELSE st.al
        doTrack == trackID \notin st.ti /\ stream.TrackName # <<>>
        t3 == IF doTrack
              THEN InsertTrackIfAbsent(t2, trackID, stream.TrackName,
                                       IF stream.AlbumName # <<>> THEN albumID ELSE <<>>, fault)
              ELSE t2
        ti1 == IF doTrack /\ ~t3.aborted THEN st.ti \cup {trackID} ELSE st.ti
        doLink == trackID # <<>> /\ artistID # <<>>
        t4 == IF doLink THEN InsertLinkIfAbsent(t3, trackID, artistID, fault) ELSE t3
        doHist == trackID # <<>> /\ (trackID \in ti1 \/ trackExists(trackID, t4))
        t5 == IF doHist
              THEN InsertHistoryOnConflict(t4, user, trackID, playedAt.t, stream.MsPlayed, fault)
              ELSE t4
    IN  IF playedAt.err THEN st
        ELSE IF doTrack /\ t3.aborted THEN [tx |-> t3, ai |-> ai1, al |-> al1, ti |-> st.ti]
        ELSE [tx |-> t5, ai |-> ai1, al |-> al1, ti |-> ti1]

RECURSIVE SaveStreams(_, _, _, _, _)
SaveStreams(st, user, data, fault, i) ==
    IF i > Len(data) THEN st
    ELSE SaveStreams(SaveStream(st, user, data[i], IF fault.i = i THEN fault.p ELSE "none"),
                     user, data, fault, i + 1)

\* saveToDatabase: the transaction it leaves, aborted when it returns an error
saveToDatabase(user, data, fault) ==
    LET st == SaveStreams([tx |-> Committed, ai |-> {}, al |-> {}, ti |-> {}],
                          user, data, fault, 1)
    IN  IF fault.p \in {"begin", "commit"} THEN Abort(Committed) ELSE st.tx

\* the ImportResult of ImportSpotifyData for one uploaded file
ImportResult(file, valid, tx) ==
    LET fileErr == IF file.ext \notin {"json", "zip"} THEN <<"Unsupported file format">>
                   ELSE <<>>
        saveErr == IF Len(valid) > 0 /\ tx.aborted
                   THEN <<"Failed to save data to database">> ELSE <<>>
        errors == fileErr \o saveErr
    IN  [ProcessedFiles |-> IF fileErr = <<>> THEN 1 ELSE 0,
         ProcessedTracks |-> Len(valid),
         Errors |-> errors,
         Status |-> IF Len(errors) > 0 THEN "completed_with_errors" ELSE "completed"]

ImportSpotifyData(u, file, fault) ==
    LET valid == IF file.ext \in {"json", "zip"} THEN processJSONFile(file.data) ELSE <<>>
        tx == IF Len(valid) > 0 THEN saveToDatabase(u, valid, fault) ELSE Committed
    IN  /\ Install(tx)
        /\ last' = [op |-> "ImportSpotifyData", user |-> u, file |-> file, fault |-> fault,
                    db0 |-> Committed, result |-> ImportResult(file, valid, tx)]
        /\ UNCHANGED <<processedCodes, now, clockSteps, trackVars, log, pc, loc, syncRuns>>

(* Bulk imports of one user *)
TsZ == [layout |-> "z", t |-> 1000]
TsBare == [layout |-> "bare", t |-> 2000]
TsBad == [layout |-> "bad", t |-> 0]

Stream(ts, ms, track, artist, album, uri) ==
    [Timestamp |-> ts, MsPlayed |-> ms, TrackName |-> track, ArtistName |-> artist,
     AlbumName |-> album, SpotifyTrackURI |-> uri]

UriA == <<"spotify", "track", "A">>
UriB == <<"spotify", "track", "B">>
UriEpisode == <<"spotify", "episode", "E">>

ImportStreams ==
    {Stream(TsZ, 6000, <<"T">>, <<"A", " ", "b">>, <<"L">>, UriA),
     Stream(TsZ, 5000, <<"T">>, <<"a", "_", "b">>, <<>>, UriA),
     Stream(TsBare, 4999, <<"T">>, <<"X">>, <<"M">>, UriB),
     Stream(TsBare, 6000, <<>>, <<"Y">>, <<"M">>, UriEpisode),
     Stream(TsBare, 6000, <<"T">>, <<>>, <<"M">>, UriB),
     Stream(TsBare, 6000, <<"P">>, <<"Z">>, <<>>, UriEpisode),
     Stream(TsBad, 6000, <<"T">>, <<"W">>, <<"K">>, UriA)}

RECURSIVE SeqsUpTo(_, _)
SeqsUpTo(S, n) ==
    IF n = 0 THEN {<<>>}
    ELSE SeqsUpTo(S, n - 1) \cup {Append(q, x) : q \in SeqsUpTo(S, n - 1), x \in S}

ImportFiles ==
    [ext : {"json"}, data : SeqsUpTo(ImportStreams, MaxFileLen)]
      \cup [ext : {"txt"}, data : SeqsUpTo(ImportStreams, 1)]
ImportFaults == {NoFault, [i |-> 1, p |-> "track"]}

NextImport ==
    \E u \in TrackUsers, file \in ImportFiles, fault \in ImportFaults :
        ImportSpotifyData(u, file, fault)

SpecImport == InitCommon /\ [][NextImport]_vars

-----------------------------------------------------------------------------
(* Two save transactions at once.  PostgreSQL runs them READ COMMITTED: a   *)
(* statement sees the committed rows and the rows its own transaction       *)
(* wrote; a write to a row another open transaction wrote waits for it.     *)

Overlay(f, g) == [x \in DOMAIN f \cup DOMAIN g |-> IF x \in DOMAIN g THEN g[x] ELSE f[x]]

\* the tables as a statement of saver p sees them
View(p) == [Committed EXCEPT !.artists = Overlay(artists, loc[p].writes)]

LockedByOther(p, id) ==
    \E q \in Savers \ {p} : pc[q] # "idle" /\ id \in DOMAIN loc[q].writes

SaverOp(op, p) == [op |-> op, user |-> loc[p].user, saver |-> p, artists0 |-> artists]

\* BeginTx of saveListeningSession / saveRecentlyPlayedTrack for the track t
BeginSave(p, u, t, playedAt) ==
    /\ pc[p] = "idle"
    /\ loc[p].runs < MaxSaves
    /\ pc' = [pc EXCEPT ![p] = "check"]
    /\ loc' = [loc EXCEPT ![p] = [track |-> t, user |-> u, playedAt |-> playedAt, i |-> 1,
                                  writes |-> EmptyTable, enriched |-> FALSE, count |-> 0,
                                  runs |-> loc[p].runs + 1]]
    /\ last' = [SaverOp("BeginSave", p) EXCEPT !.user = u]
    /\ UNCHANGED <<processedCodes, now, clockSteps, trackVars, dbVars, log, syncRuns>>

\* saveArtistWithDetails for the i-th artist: SELECT array_length(genres, 1)
ArtistCheck(p) ==
    /\ pc[p] = "check"
    /\ pc' = [pc EXCEPT ![p] = "write"]
    /\ loc' = [loc EXCEPT ![p].enriched =
                  AlreadyEnriched(View(p), loc[p].track.Artists[loc[p].i].ID)]
    /\ last' = SaverOp("ArtistCheck", p)
    /\ UNCHANGED <<processedCodes, now, clockSteps, trackVars, dbVars, log, syncRuns>>

\* the rows of artists a statement changed
Written(before, after) ==
    [id \in {x \in DOMAIN after.artists :
                x \notin DOMAIN before.artists \/ before.artists[x] # after.artists[x]}
        |-> after.artists[id]]

\* the GetArtistDetails requests saveArtistWithDetails makes once its genres
\* check answered `enriched`: none before the early return, one after it
GetArtistDetailsCalls(enriched) == IF enriched THEN 0 ELSE 1

\* the record of one write of saveArtistWithDetails: the artist, the popularity
\* passed in, the upstream answer that was at hand, the tables the statement
\* saw and the tables it left in its transaction
WriteOp(p, id, popularity, up, seen, wrote) ==
    [op |-> "ArtistWrite", user |-> loc[p].user, saver |-> p, artists0 |-> artists,
     artist |-> id, enriched |-> loc[p].enriched, popularity |-> popularity,
     answer |-> up, calls |-> GetArtistDetailsCalls(loc[p].enriched),
     seen |-> seen.artists, wrote |-> wrote.artists]

\* saveArtistWithDetails for the i-th artist: GetArtistDetails answers `up`, then
\* the UPDATE or the INSERT ... ON CONFLICT DO UPDATE
ArtistWrite(p, up) ==
    LET a == loc[p].track.Artists[loc[p].i] IN
    /\ pc[p] = "write"
    /\ ~LockedByOther(p, a.ID)
    /\ pc' = [pc EXCEPT ![p] = IF loc[p].i < Len(loc[p].track.Artists) THEN "check"
                                ELSE "finish"]
    /\ loc' = [loc EXCEPT ![p].i = @ + 1,
                          ![p].writes =
                              Overlay(@, Written(View(p),
                                                 enrichArtist(View(p), loc[p].enriched, a.ID,
                                                              a.Name, loc[p].track.Popularity,
                                                              up, "none")))]
    /\ last' = WriteOp(p, a.ID, loc[p].track.Popularity, up, View(p),
                       enrichArtist(View(p), loc[p].enriched, a.ID, a.Name,
                                    loc[p].track.Popularity, up, "none"))
    /\ UNCHANGED <<processedCodes, now, clockSteps, trackVars, dbVars, log, syncRuns>>

\* the album, the track, its artist links, the history row and Commit
Finished(tx, t, user, playedAt) ==
    InsertHistory(LinkArtists(UpsertTrack(UpsertAlbum(tx, t.Album, "none"), t, "none"),
                              t, "none", 1),
                  user, t.ID, playedAt, "none")

FinishSave(p) ==
    /\ pc[p] = "finish"
    /\ pc' = [pc EXCEPT ![p] = "idle"]
    /\ loc' = [loc EXCEPT ![p] = [IdleLoc EXCEPT !.runs = loc[p].runs]]
    /\ Install(Finished(View(p), loc[p].track, loc[p].user, loc[p].playedAt))
    /\ log' = log \cup {[msg |-> IF p = "flush" THEN "Saved listening session"
                                 ELSE "Synced recently played track",
                         user |-> loc[p].user, track |-> loc[p].track.ID]}
    /\ last' = SaverOp("FinishSave", p)
    /\ UNCHANGED <<processedCodes, now, clockSteps, trackVars, syncRuns>>

(* A live flush and a sync save of one user running side by side, and imports *)
ArtistFiles ==
    {[ext |-> "json", data |-> <<Stream(TsBare, 6000, <<"P">>, <<"Z">>, <<>>, UriEpisode)>>]}

ArtistSavers == {"flush", "sync"}

NextArtist ==
    \/ \E p \in ArtistSavers, u \in TrackUsers, id \in UpTrackIds :
          BeginSave(p, u, UpTrack(id, TRUE), IF p = "flush" THEN 40000 ELSE 20000)
    \/ \E p \in ArtistSavers : ArtistCheck(p)
    \/ \E p \in ArtistSavers, up \in ArtistAnswers : ArtistWrite(p, up)
    \/ \E p \in ArtistSavers : FinishSave(p)
    \/ \E u \in TrackUsers, file \in ArtistFiles : ImportSpotifyData(u, file, NoFault)

SpecArtist == InitCommon /\ [][NextArtist]_vars

(* The same two savers while GetArtistDetails fails or answers one genre *)
FallbackAnswers == {Err, [Name |-> <<"N">>, Genres |-> <<"rock">>, Popularity |-> 70]}

NextFallback ==
    \/ \E p \in ArtistSavers, u \in TrackUsers, id \in UpTrackIds :
          BeginSave(p, u, UpTrack(id, TRUE), IF p = "flush" THEN 40000 ELSE 20000)
    \/ \E p \in ArtistSavers : ArtistCheck(p)
    \/ \E p \in ArtistSavers, up \in FallbackAnswers : ArtistWrite(p, up)
    \/ \E p \in ArtistSavers : FinishSave(p)

SpecFallback == InitCommon /\ [][NextFallback]_vars

-----------------------------------------------------------------------------
(* trackingMutex.  StartTracking, StopTracking and the part of              *)
(* updateUserTracking after GetCurrentTrack run between Lock and the         *)
(* deferred Unlock; updateAllActiveTracking copies the sessions between      *)
(* RLock and RUnlock.  The live flush runs inside StopTracking, so the       *)
(* goroutine that is in it holds the write lock.                             *)

HoldsLock(p) == p = "flush" /\ pc[p] # "idle"

\* Lock() or RLock() returns
LockFree == \A p \in Savers : ~HoldsLock(p)

\* StopTracking of a session that saveListeningSession will store: Lock, IsActive
\* = false, the early returns of saveListeningSession and BeginTx
StopTrackingLock(u) ==
    /\ LockFree
    /\ loc["flush"].runs < MaxSaves
    /\ activeTracking[u] # Nil
    /\ SessionFlushes(activeTracking[u])
    /\ activeTracking' = [activeTracking EXCEPT ![u].IsActive = FALSE]
    /\ pc' = [pc EXCEPT !["flush"] = "check"]
    /\ loc' = [loc EXCEPT !["flush"] =
                  [track |-> activeTracking[u].LastTrack, user |-> u,
                   playedAt |-> activeTracking[u].SessionStart, i |-> 1,
                   writes |-> EmptyTable, enriched |-> FALSE, count |-> 0,
                   runs |-> loc["flush"].runs + 1]]
    /\ last' = Op("StopTracking", u, activeTracking[u],
                  [activeTracking[u] EXCEPT !.IsActive = FALSE], "none", Nil)
    /\ UNCHANGED <<processedCodes, now, clockSteps, sweep, dbVars, log, syncRuns>>

\* the rest of it: the album, the track, its links, the history row and Commit,
\* then delete(s.activeTracking, userID) and the deferred Unlock
StopTrackingUnlock ==
    /\ pc["flush"] = "finish"
    /\ pc' = [pc EXCEPT !["flush"] = "idle"]
    /\ loc' = [loc EXCEPT !["flush"] = [IdleLoc EXCEPT !.runs = loc["flush"].runs]]
    /\ Install(Finished(View("flush"), loc["flush"].track, loc["flush"].user,
                        loc["flush"].playedAt))
    /\ log' = log \cup {[msg |-> "Saved listening session", user |-> loc["flush"].user,
                         track |-> loc["flush"].track.ID]}
    /\ activeTracking' = Deleted(activeTracking, loc["flush"].user)
    /\ sweep' = Detach(loc["flush"].user, activeTracking[loc["flush"].user])
    /\ last' = SaverOp("StopTrackingUnlock", "flush")
    /\ UNCHANGED <<processedCodes, now, clockSteps, syncRuns>>

(* Two users starting, listening and stopping *)
LockAnswers == {UpTrack(<<"A">>, TRUE)}

NextLock ==
    \/ \E u \in Users : LockFree /\ StartTracking(u)
    \/ \E u \in Users, ups \in TrackUps :
          /\ LockFree
          /\ IF activeTracking[u] = Nil THEN TRUE ELSE ~SessionFlushes(activeTracking[u])
          /\ StopTracking(u, ups, "none")
    \/ \E u \in Users : StopTrackingLock(u)
    \/ StopTrackingUnlock
    \/ LockFree /\ SweepBegin
    \/ \E e \in sweep, a \in LockAnswers, ups \in TrackUps :
          LockFree /\ UpdateUserTracking(e, a, ups, "none")
    \/ \E d \in SweepDeltas : Advance(d)
    \/ ArtistCheck("flush")
    \/ \E up \in FallbackAnswers : ArtistWrite("flush", up)

SpecLock == InitCommon /\ [][NextLock]_vars

(* The same with upstream answering for u1 only: u2's token is refused *)
CountAnswers(u) == IF u = <<"u1">> THEN {UpTrack(<<"A">>, TRUE)} ELSE {Err}

NextCount ==
    \/ \E u \in Users : LockFree /\ StartTracking(u)
    \/ \E u \in Users, ups \in TrackUps :
          /\ LockFree
          /\ IF activeTracking[u] = Nil THEN TRUE ELSE ~SessionFlushes(activeTracking[u])
          /\ StopTracking(u, ups, "none")
    \/ \E u \in Users : StopTrackingLock(u)
    \/ StopTrackingUnlock
    \/ LockFree /\ SweepBegin
    \/ \E e \in sweep, ups \in TrackUps : \E a \in CountAnswers(e.user) :
          LockFree /\ UpdateUserTracking(e, a, ups, "none")
    \/ \E d \in SweepDeltas : Advance(d)
    \/ ArtistCheck("flush")
    \/ ArtistWrite("flush", Err)

SpecCount == InitCommon /\ [][NextCount]_vars

-----------------------------------------------------------------------------
(* The scheduler: StartPeriodicTracking runs in one goroutine started by    *)
(* main; StopPeriodicTracking sends on stopChannel, which NewTrackingService *)
(* makes without a buffer, so the send returns when the loop receives.       *)

Stoppers == {"stop1", "stop2"}
SchedProcs == {"loop"} \cup Stoppers

\* NewTrackingService: no loop yet, nobody stopping
InitSched ==
    /\ now = 0
    /\ clockSteps = 0
    /\ activeTracking = [u \in Users |-> Nil]
    /\ sweep = {}
    /\ InitDb
    /\ log = {}
    /\ pc = [p \in Savers \cup SchedProcs |->
                IF p = "loop" THEN "off" ELSE "idle"]
    /\ loc = [p \in Savers |-> IdleLoc]
    /\ syncRuns = 0
    /\ processedCodes = {}
    /\ last = Op("init", <<>>, Nil, Nil, "none", Nil)

\* go trackingService.StartPeriodicTracking(): the loop reaches its select
StartPeriodicTracking ==
    /\ pc["loop"] = "off"
    /\ pc' = [pc EXCEPT !["loop"] = "select"]
    /\ last' = Op("StartPeriodicTracking", <<>>, Nil, Nil, "none", Nil)
    /\ UNCHANGED <<processedCodes, now, clockSteps, trackVars, dbVars, log, loc, syncRuns>>

\* case <-ticker.C, and updateAllActiveTracking copies the active sessions
LoopTick ==
    /\ pc["loop"] = "select"
    /\ pc' = [pc EXCEPT !["loop"] = "sweep"]
    /\ sweep' = {[user |-> u, obj |-> Nil] :
                    u \in {v \in Users : activeTracking[v] # Nil /\ activeTracking[v].IsActive}}
    /\ last' = Op("LoopTick", <<>>, Nil, Nil, "none", Nil)
    /\ UNCHANGED <<processedCodes, now, clockSteps, activeTracking, dbVars, log, loc, syncRuns>>

\* the loop of updateAllActiveTracking reaches the session e
LoopUpdate(e, answer, ups, fault) ==
    /\ pc["loop"] = "sweep"
    /\ UpdateUserTracking(e, answer, ups, fault)

\* the sessions are updated: syncRecentlyPlayedTracks, then back to the select
LoopSync(order, w, ups, fault) ==
    /\ pc["loop"] = "sweep"
    /\ sweep = {}
    /\ pc' = [pc EXCEPT !["loop"] = "select"]
    /\ order \in Orders({u \in Users : activeTracking[u] # Nil /\ activeTracking[u].IsActive})
    /\ IF order = <<>>
       THEN /\ last' = Op("LoopSync", <<>>, Nil, Nil, "none", Nil)
            /\ UNCHANGED <<dbVars, log>>
       ELSE \E st \in {SyncAll([db |-> Committed, logs |-> {}, runs |-> <<>>],
                                order, w, ups, fault)} :
               Synced("LoopSync", Head(order), w, fault, st.db, st.logs, st.runs[1], "nil")
    /\ UNCHANGED <<processedCodes, now, clockSteps, trackVars, loc, syncRuns>>

StopPeriodicTrackingBuffered(k) ==
    /\ pc[k] = "idle"
    /\ pc' = [pc EXCEPT ![k] = "returned"]
    /\ last' = Op("StopPeriodicTracking", <<>>, Nil, Nil, "none", Nil)
    /\ UNCHANGED <<processedCodes, now, clockSteps, trackVars, dbVars, log, loc, syncRuns>>

\* StopPeriodicTracking is called: s.stopChannel <- true waits for a receiver
StopPeriodicTracking(k) ==
    /\ pc[k] = "idle"
    /\ pc' = [pc EXCEPT ![k] = "send"]
    /\ last' = Op("StopPeriodicTracking", <<>>, Nil, Nil, "none", Nil)
    /\ UNCHANGED <<processedCodes, now, clockSteps, trackVars, dbVars, log, loc, syncRuns>>

LoopStopAnywhere(k) ==
    /\ pc["loop"] \in {"select", "sweep"}
    /\ pc[k] = "send"
    /\ pc' = [pc EXCEPT !["loop"] = "done", ![k] = "returned"]
    /\ last' = Op("LoopStop", <<>>, Nil, Nil, "none", Nil)
    /\ UNCHANGED <<processedCodes, now, clockSteps, trackVars, dbVars, log, loc, syncRuns>>

\* case <-s.stopChannel: the loop takes the value of the sender k and returns,
\* and k's send returns
LoopStop(k) ==
    /\ pc["loop"] = "select"
    /\ pc[k] = "send"
    /\ pc' = [pc EXCEPT !["loop"] = "done", ![k] = "returned"]
    /\ last' = Op("LoopStop", <<>>, Nil, Nil, "none", Nil)
    /\ UNCHANGED <<processedCodes, now, clockSteps, trackVars, dbVars, log, loc, syncRuns>>

(* One user's sessions under the scheduler, upstream holding no past play *)
SchedAnswers == {Nil, UpTrack(<<"A">>, TRUE)}
SchedWorlds == {World(0, "after", 0, "none", 0)}

LoopStep ==
    \/ \E e \in sweep, a \in SchedAnswers, ups \in TrackUps : LoopUpdate(e, a, ups, "none")
    \/ \E order \in Orders(TrackUsers) \cup {<<>>}, w \in SchedWorlds, ups \in TrackUps :
          LoopSync(order, w, ups, NoFault)

NextSched ==
    \/ \E u \in TrackUsers : StartTracking(u)
    \/ \E u \in TrackUsers, ups \in TrackUps : StopTracking(u, ups, "none")
    \/ \E d \in SweepDeltas : Advance(d)
    \/ StartPeriodicTracking
    \/ LoopTick
    \/ LoopStep
    \/ \E k \in Stoppers : StopPeriodicTracking(k)
    \/ \E k \in Stoppers : LoopStop(k)

SpecSched == InitSched /\ [][NextSched]_vars

\* One call of StopPeriodicTracking.  Every call the loop makes returns (the
\* HTTP client has a 30 s timeout); a select with several ready cases picks one
\* at random, so a sender that keeps waiting is received from
NextStop ==
    \/ \E u \in TrackUsers : StartTracking(u)
    \/ \E d \in SweepDeltas : Advance(d)
    \/ StartPeriodicTracking
    \/ LoopTick
    \/ LoopStep
    \/ StopPeriodicTracking("stop1")
    \/ LoopStop("stop1")

SpecSchedLive ==
    /\ InitSched /\ [][NextStop]_vars
    /\ WF_vars(LoopStep)
    /\ SF_vars(LoopStop("stop1"))

-----------------------------------------------------------------------------
(* The OAuth callback: handlers/auth.go.  Each request is a goroutine; the  *)
(* test and the marking of its code run between codesMutex.Lock and Unlock,  *)
(* the token exchange and what follows it run after Unlock.  The users table *)
(* written by createOrGetUser is not part of this model.                     *)

Codes == {<<"c1">>, <<"c2">>}
Requests == {"r1", "r2", "r3"}
NoRequest == [code |-> <<>>, error |-> <<>>, status |-> "none"]

\* NewAuthHandler: no code processed, no request in flight
InitAuth ==
    /\ now = 0
    /\ clockSteps = 0
    /\ activeTracking = [u \in Users |-> Nil]
    /\ sweep = {}
    /\ InitDb
    /\ log = {}
    /\ pc = [r \in Requests |-> "idle"]
    /\ loc = [r \in Requests |-> NoRequest]
    /\ syncRuns = 0
    /\ processedCodes = {}
    /\ last = Op("init", <<>>, Nil, Nil, "none", Nil)

MarkedNone(codes, code) == codes

\* h.processedCodes[code] = true
Marked(codes, code) == codes \cup {code}

\* what the request is answered before any call to Spotify, "exchange" when it
\* goes on to ExchangeCode
CallbackStatus(codes, code, error) ==
    IF code # <<>> /\ code \in codes THEN "duplicate_request_ignored"
    ELSE IF error # <<>> THEN "Spotify authorization failed"
    ELSE IF code = <<>> THEN "Authorization code not provided"
    ELSE "exchange"

\* SpotifyCallback up to the call of ExchangeCode
SpotifyCallback(r, code, error) ==
    /\ pc[r] = "idle"
    /\ processedCodes' = IF code # <<>> /\ code \notin processedCodes
                         THEN Marked(processedCodes, code) ELSE processedCodes
    /\ \E status \in {CallbackStatus(processedCodes, code, error)} :
          /\ pc' = [pc EXCEPT ![r] = IF status = "exchange" THEN "exchange" ELSE "done"]
          /\ loc' = [loc EXCEPT ![r] = [code |-> code, error |-> error, status |-> status]]
          /\ log' = log \cup
                 (IF status = "exchange"
                  THEN {[msg |-> "Exchanging code for token...", req |-> r, code |-> code]}
                  ELSE IF status = "duplicate_request_ignored"
                  THEN {[msg |-> "Code already processed, ignoring duplicate request",
                         req |-> r, code |-> code]}
                  ELSE {})
          /\ last' = [op |-> "SpotifyCallback", req |-> r, code |-> code, error |-> error,
                      status |-> status]
    /\ UNCHANGED <<now, clockSteps, trackVars, dbVars, syncRuns>>

\* the answers of ExchangeCode and of the calls after it
CallbackOutcomes ==
    {"Failed to exchange code for token", "Failed to get user profile", "redirect"}

\* ExchangeCode returns and the request runs to its response; with every call
\* succeeding, tracking is started for the user u of the profile
CallbackFinish(r, outcome, u) ==
    /\ pc[r] = "exchange"
    /\ pc' = [pc EXCEPT ![r] = "done"]
    /\ loc' = [loc EXCEPT ![r].status = outcome]
    /\ IF outcome = "redirect"
       THEN /\ activeTracking' = [activeTracking EXCEPT ![u] = NewSession(u, Token(u))]
            /\ sweep' = Detach(u, activeTracking[u])
       ELSE UNCHANGED trackVars
    /\ last' = [op |-> "CallbackFinish", req |-> r, code |-> loc[r].code,
                error |-> loc[r].error, status |-> outcome]
    /\ UNCHANGED <<processedCodes, now, clockSteps, dbVars, log, syncRuns>>

(* Three callback requests *)
NextAuth ==
    \/ \E r \in Requests, code \in Codes \cup {<<>>}, error \in {<<>>, <<"access_denied">>} :
          SpotifyCallback(r, code, error)
    \/ \E r \in Requests, outcome \in CallbackOutcomes, u \in TrackUsers :
          CallbackFinish(r, outcome, u)

SpecAuth == InitAuth /\ [][NextAuth]_vars

-----------------------------------------------------------------------------
(* Two syncs of one user at once: the scheduler's and a ForceFullSync       *)
(* request's.  Each first asks whether the event is stored, in the save     *)
(* loop and again in saveRecentlyPlayedTrack, then writes it.               *)

SyncSavers == {"sync", "force"}

\* the save loop of syncUserRecentlyPlayed reaches item: SELECT COUNT(*)
LoopCount(p, u, item) ==
    /\ pc[p] = "idle"
    /\ loc[p].runs < MaxSaves
    /\ activeTracking[u] # Nil /\ activeTracking[u].IsActive
    /\ item.Track # Nil /\ ~ParseRFC3339(item.PlayedAt).err
    /\ pc' = [pc EXCEPT ![p] = "loop"]
    /\ loc' = [loc EXCEPT ![p] =
                  [IdleLoc EXCEPT !.track = item.Track, !.user = u,
                                  !.playedAt = ParseRFC3339(item.PlayedAt).t,
                                  !.count = CountRows(listening_history, u, item.Track.ID,
                                                      ParseRFC3339(item.PlayedAt).t),
                                  !.runs = loc[p].runs + 1]]
    /\ last' = [SaverOp("LoopCount", p) EXCEPT !.user = u]
    /\ UNCHANGED <<processedCodes, now, clockSteps, trackVars, dbVars, log, syncRuns>>

\* if count == 0, saveRecentlyPlayedTrack is called: its own SELECT COUNT(*)
FuncCount(p) ==
    /\ pc[p] = "loop"
    /\ pc' = [pc EXCEPT ![p] = IF loc[p].count = 0 THEN "func" ELSE "idle"]
    /\ loc' = [loc EXCEPT ![p] =
                  IF loc[p].count # 0 THEN loc[p]
                  ELSE [loc[p] EXCEPT !.count = CountRows(listening_history, loc[p].user,
                                                          loc[p].track.ID, loc[p].playedAt)]]
    /\ last' = SaverOp("FuncCount", p)
    /\ UNCHANGED <<processedCodes, now, clockSteps, trackVars, dbVars, log, syncRuns>>

\* if count > 0 it returns; else its transaction, from BeginTx to Commit;
\* loc keeps the item the saver handled last
SaveCounted(p, ups) ==
    /\ pc[p] = "func"
    /\ pc' = [pc EXCEPT ![p] = "idle"]
    /\ UNCHANGED loc
    /\ IF loc[p].count > 0
       THEN UNCHANGED <<dbVars, log>>
       ELSE /\ Install(RecordEvent(loc[p].user, loc[p].track, loc[p].playedAt, ups, "none"))
            /\ log' = log \cup {[msg |-> "Synced recently played track",
                                  user |-> loc[p].user, track |-> loc[p].track.ID]}
    /\ last' = SaverOp("SaveCounted", p)
    /\ UNCHANGED <<processedCodes, now, clockSteps, trackVars, syncRuns>>

\* the plays both syncs fetched
DupItems == {RecentItem(k, World(2, "after", 0, "none", 0)) : k \in 1..2}

NextDup ==
    \/ \E u \in TrackUsers : StartTracking(u)
    \/ \E p \in SyncSavers, u \in TrackUsers, item \in DupItems : LoopCount(p, u, item)
    \/ \E p \in SyncSavers : FuncCount(p)
    \/ \E p \in SyncSavers, ups \in TrackUps : SaveCounted(p, ups)

SpecDup == InitCommon /\ [][NextDup]_vars

-----------------------------------------------------------------------------
(* The three producers of listening_history side by side: one user's live  *)
(* session, catch-up syncs and bulk imports                                *)

StoreDeltas == {20000, 40000}
StoreAnswers == {Nil, UpTrack(<<"A">>, TRUE), UpTrack(<<"B">>, TRUE)}
StoreWorlds == {World(1, "after", 0, "none", 0)}
StoreFiles ==
    {[ext |-> "json", data |-> <<Stream(TsZ, 6000, <<"T">>, <<"A", " ", "b">>, <<"L">>, UriA)>>]}

NextStore ==
    \/ \E u \in TrackUsers : StartTracking(u)
    \/ \E u \in TrackUsers, ups \in TrackUps : StopTracking(u, ups, "none")
    \/ SweepBegin
    \/ \E e \in sweep, a \in StoreAnswers, ups \in TrackUps :
          UpdateUserTracking(e, a, ups, "none")
    \/ \E d \in StoreDeltas : Advance(d)
    \/ \E u \in TrackUsers, w \in StoreWorlds, ups \in TrackUps :
          ForceFullSync(u, w, ups, NoFault)
    \/ \E order \in Orders(TrackUsers), w \in StoreWorlds, ups \in TrackUps :
          syncRecentlyPlayedTracks(order, w, ups, NoFault)
    \/ \E u \in TrackUsers, file \in StoreFiles : ImportSpotifyData(u, file, NoFault)

SpecStore == InitCommon /\ [][NextStore]_vars

(* The same producers with a failing tracks statement; the clock steps far  *)
(* enough for every observed track to pass the dwell threshold              *)
RefDeltas == {40000}
RefFaults == {"none", "track"}
RefItemFaults == {NoFault, [i |-> 1, p |-> "track"]}
RefAnswers == {Nil, UpTrack(<<"A">>, TRUE)}

NextRefs ==
    \/ \E u \in TrackUsers : StartTracking(u)
    \/ \E u \in TrackUsers, ups \in TrackUps, f \in RefFaults : StopTracking(u, ups, f)
    \/ SweepBegin
    \/ \E e \in sweep, a \in RefAnswers, ups \in TrackUps, f \in RefFaults :
          UpdateUserTracking(e, a, ups, f)
    \/ \E d \in RefDeltas : Advance(d)
    \/ \E u \in TrackUsers, w \in StoreWorlds, ups \in TrackUps, f \in RefItemFaults :
          ForceFullSync(u, w, ups, f)
    \/ \E u \in TrackUsers, file \in StoreFiles : ImportSpotifyData(u, file, NoFault)

SpecRefs == InitCommon /\ [][NextRefs]_vars

(* One user's live session, flushed by its ticks, and catch-up syncs, any   *)
(* statement of a save able to fail, upstream answering every artist request *)
AtomicDeltas == {40000}
AtomicAnswers == {Nil, UpTrack(<<"B">>, TRUE)}
AtomicUps == {[i \in 1..2 |-> [Name |-> <<"N">>, Genres |-> <<"rock">>, Popularity |-> 70]]}
AtomicItemFaults == {[i |-> 1, p |-> f] : f \in FaultPoints}

NextAtomic ==
    \/ \E u \in TrackUsers : StartTracking(u)
    \/ SweepBegin
    \/ \E e \in sweep, a \in AtomicAnswers, ups \in AtomicUps, f \in FaultPoints :
          UpdateUserTracking(e, a, ups, f)
    \/ \E d \in AtomicDeltas : Advance(d)
    \/ \E u \in TrackUsers, w \in StoreWorlds, ups \in AtomicUps, f \in AtomicItemFaults :
          ForceFullSync(u, w, ups, f)

SpecAtomic == InitCommon /\ [][NextAtomic]_vars

(* The three producers referring to the same tracks with different values:  *)
(* upstream reports track A under two names, durations and popularities,    *)
(* and export records without a track URI carry two track names             *)
Remastered ==
    [UpTrack(<<"A">>, TRUE) EXCEPT !.Name = <<"n", "A", "2">>, !.DurationMs = 210000,
                                   !.Popularity = 60]
RefreshAnswers == {Nil, UpTrack(<<"A">>, TRUE), Remastered}
RefreshStreams ==
    {Stream(TsZ, 6000, <<"T">>, <<"X">>, <<"M">>, UriA),
     Stream(TsBare, 6000, <<"P">>, <<"Z">>, <<>>, UriEpisode),
     Stream(TsBare, 6000, <<"K">>, <<"Z">>, <<>>, UriEpisode)}
RefreshFiles == [ext : {"json"}, data : SeqsUpTo(RefreshStreams, 1)]

NextRefresh ==
    \/ \E u \in TrackUsers : StartTracking(u)
    \/ SweepBegin
    \/ \E e \in sweep, a \in RefreshAnswers, ups \in TrackUps :
          UpdateUserTracking(e, a, ups, "none")
    \/ \E d \in RefDeltas : Advance(d)
    \/ \E u \in TrackUsers, w \in StoreWorlds, ups \in TrackUps :
          ForceFullSync(u, w, ups, NoFault)
    \/ \E u \in TrackUsers, file \in RefreshFiles : ImportSpotifyData(u, file, NoFault)

SpecRefresh == InitCommon /\ [][NextRefresh]_vars

(* Batches of one user: catch-up syncs of short histories and imports of    *)
(* short files, each statement of a batch able to fail                      *)
BatchWorlds ==
    {World(3, "after", 0, "none", 0),
     World(3, "after", 2, "badtime", 0),
     World(2, "after", 1, "niltrack", 0)}
BatchSyncFaults == SyncFaults \cup {[i |-> 2, p |-> "track"]}
BatchStreams ==
    {Stream(TsZ, 6000, <<"T">>, <<"A", " ", "b">>, <<"L">>, UriA),
     Stream(TsBare, 6000, <<"P">>, <<"Z">>, <<>>, UriEpisode),
     Stream(TsBare, 6000, <<"P">>, <<"z">>, <<>>, UriEpisode)}
BatchFiles == [ext : {"json"}, data : SeqsUpTo(BatchStreams, MaxFileLen)]
BatchFaults == {NoFault, [i |-> 1, p |-> "artist"]}

NextBatch ==
    \/ \E u \in TrackUsers : StartTracking(u)
    \/ \E u \in TrackUsers, w \in BatchWorlds, ups \in TrackUps, f \in BatchSyncFaults :
          ForceFullSync(u, w, ups, f)
    \/ \E u \in TrackUsers, file \in BatchFiles, f \in BatchFaults :
          ImportSpotifyData(u, file, f)

SpecBatch == InitCommon /\ [][NextBatch]_vars

-----------------------------------------------------------------------------
(* Properties of the live tracking state machine *)

A == <<"A">>
B == <<"B">>

\* the last operation ran saveListeningSession on a session with a current track
FlushAttempted ==
    \/ last.op = "StopTracking" /\ last.pre # Nil /\ last.pre.LastTrack # Nil
    \/ /\ last.op = "UpdateUserTracking" /\ last.answer # Err
       /\ last.pre.LastTrack # Nil
       /\ (last.answer = Nil \/ last.answer.ID # last.pre.LastTrack.ID)

RowsAdded == Len(listening_history) - last.rows0

\* C3: a flush (by StopTracking or by a tick) of a session whose accumulated play
\* time is below 30,000 ms persists nothing; at 30,000 ms or more, persistence
\* succeeding, it persists exactly one event, for the session's track and start.
C3_DwellThreshold ==
    FlushAttempted =>
        /\ last.pre.TotalPlayTime <= 29999 => RowsAdded = 0
        /\ (last.pre.TotalPlayTime >= 30000 /\ last.fault = "none") =>
              /\ RowsAdded = 1
              /\ listening_history[Len(listening_history)].user_id = last.user
              /\ listening_history[Len(listening_history)].track_id = last.pre.LastTrack.ID
              /\ listening_history[Len(listening_history)].played_at = last.pre.SessionStart

C3_Witness ==
    /\ last.op = "StopTracking" /\ last.pre # Nil /\ last.pre.LastTrack # Nil
    /\ last.pre.TotalPlayTime = 29999
    /\ RowsAdded = 0
    /\ activeTracking[last.user] = Nil

\* a tick on which upstream reports the session's current track as playing
SameTrackPlaying ==
    /\ last.op = "UpdateUserTracking" /\ last.answer \notin {Err, Nil}
    /\ last.pre.LastTrack # Nil
    /\ last.answer.ID = last.pre.LastTrack.ID
    /\ last.answer.IsPlaying

TickDelta == last.at - last.pre.LastUpdated
TickCredit == last.post.TotalPlayTime - last.pre.TotalPlayTime

\* C4 as claimed: the delta is credited in full up to and including the ceiling
\* of 120,000 ms, and not at all above it.
C4_Claimed ==
    SameTrackPlaying => TickCredit = (IF TickDelta <= 120000 THEN TickDelta ELSE 0)

\* C4: on a tick where upstream reports the session's current track playing, the
\* play time credited is exactly now - lastUpdated when that delta is below the
\* two-minute ceiling, and exactly 0 when the delta equals or exceeds it.
C4_GapAllOrNothing ==
    SameTrackPlaying => TickCredit = (IF TickDelta < 120000 THEN TickDelta ELSE 0)

C4_Witness ==
    /\ SameTrackPlaying
    /\ TickDelta = 120000
    /\ TickCredit = 0
    /\ last.pre.TotalPlayTime = 119999

\* C5: in Scenario A (track A observed playing on two ticks 20 s apart, then track
\* B on the next tick) the tick that reports B persists one event, for A, whose
\* stored listened duration is the play time accumulated for A; no event for B.
C5_ScenarioA ==
    (/\ last.op = "UpdateUserTracking" /\ last.answer \notin {Err, Nil}
     /\ last.answer.ID = B
     /\ last.pre.LastTrack # Nil /\ last.pre.LastTrack.ID = A
     /\ last.pre.TotalPlayTime = 40000
     /\ last.rows0 = 0 /\ last.fault = "none")
    => /\ Len(listening_history) = 1
       /\ listening_history[1].track_id = A
       /\ listening_history[1].listened_duration_ms = last.pre.TotalPlayTime

\* C6: after StopTracking(u) the map holds no session for u, whatever the final
\* flush did; StopTracking of a user who is not tracked changes nothing.
C6_StopRemoves ==
    [][last'.op = "StopTracking" =>
          /\ activeTracking'[last'.user] = Nil
          /\ last'.pre = Nil => UNCHANGED <<activeTracking, sweep, dbVars, log>>]_vars

C6_Witness ==
    /\ last.op = "StopTracking" /\ last.pre # Nil /\ last.pre.LastTrack # Nil
    /\ last.pre.TotalPlayTime = 10000
    /\ RowsAdded = 0
    /\ activeTracking[last.user] = Nil

\* a tick that got an answer from upstream
Ticked == last.op = "UpdateUserTracking" /\ last.answer # Err

\* a tick on which upstream reports a track that is not the session's current one
NewTrackTick ==
    /\ Ticked /\ last.answer # Nil
    /\ (last.pre.LastTrack = Nil \/ last.pre.LastTrack.ID # last.answer.ID)

\* C18: a tick that observes a track other than the session's current one (or a
\* first track) ends with that track as the current track, the session start
\* at the tick's time and no accumulated play time.
C18_NewTrackStartsAtZero ==
    NewTrackTick =>
        /\ last.post.LastTrack = last.answer
        /\ last.post.SessionStart = last.at
        /\ last.post.TotalPlayTime = 0

\* a tick on which upstream reports no track
NoTrackTick == Ticked /\ last.answer = Nil

\* C19: a tick on which upstream reports no track leaves the session without a
\* current track and, if the map held it, still in the map and active; it
\* persists nothing for a session that had no current track or one played less
\* than 30,000 ms, and one event, for that track and session start, otherwise.
C19_NoTrackFlushes ==
    NoTrackTick =>
        /\ last.post.LastTrack = Nil
        /\ ~last.stale =>
              /\ activeTracking[last.user] # Nil
              /\ activeTracking[last.user].LastTrack = Nil
              /\ activeTracking[last.user].IsActive
        /\ last.pre.LastTrack = Nil => RowsAdded = 0
        /\ last.pre.LastTrack # Nil =>
              /\ last.pre.TotalPlayTime < 30000 => RowsAdded = 0
              /\ (last.pre.TotalPlayTime >= 30000 /\ last.fault = "none") =>
                    /\ RowsAdded = 1
                    /\ listening_history[Len(listening_history)].track_id
                          = last.pre.LastTrack.ID
                    /\ listening_history[Len(listening_history)].played_at
                          = last.pre.SessionStart

\* track A played 40,000 ms, then upstream reports nothing: one event, and the
\* session stays in the map without a track
C19_Witness ==
    /\ NoTrackTick /\ ~last.stale
    /\ last.pre.LastTrack # Nil /\ last.pre.LastTrack.ID = A
    /\ last.pre.TotalPlayTime = 40000
    /\ RowsAdded = 1
    /\ activeTracking[last.user] # Nil
    /\ activeTracking[last.user].LastTrack = Nil

\* C20: every tick of an active session ends with lastUpdated at the tick's time,
\* whatever upstream answered, an error included.
C20_LastUpdatedAlways ==
    last.op = "UpdateUserTracking" => last.post.LastUpdated = last.at

\* a tick on which upstream reports the session's current track
SameTrackTick ==
    /\ Ticked /\ last.answer # Nil
    /\ last.pre.LastTrack # Nil /\ last.pre.LastTrack.ID = last.answer.ID

\* C21: a tick increases the session's accumulated play time only when upstream
\* reported a track with is_playing = true; a tick that reports the track paused,
\* reports no track or fails does not increase it, and a tick that reports the
\* session's current track never decreases it.
C21_PlayTimeOnlyWhilePlaying ==
    last.op = "UpdateUserTracking" =>
        /\ last.post.TotalPlayTime > last.pre.TotalPlayTime =>
              (last.answer \notin {Err, Nil} /\ last.answer.IsPlaying)
        /\ SameTrackTick => last.post.TotalPlayTime >= last.pre.TotalPlayTime
        /\ ~last.stale => activeTracking[last.user] = last.post

\* the current track reported paused 20 s after it had played 20 s: nothing added
C21_Witness ==
    /\ SameTrackTick /\ ~last.answer.IsPlaying
    /\ TickDelta = 20000
    /\ last.pre.TotalPlayTime = 20000
    /\ last.post.TotalPlayTime = 20000
    /\ ~last.stale

\* C22: a tick whose now-playing query fails leaves the session as it was, the
\* session map, the tables and the log included, and leaves every other session
\* of the running sweep still to be processed.
C22_FailedTickChangesNothing ==
    [][(last'.op = "UpdateUserTracking" /\ last'.answer = Err) =>
          /\ UNCHANGED <<activeTracking, dbVars, log>>
          /\ last'.post = last'.pre
          /\ sweep' \subseteq sweep
          /\ Cardinality(sweep') = Cardinality(sweep) - 1]_vars

\* the query failed for one user 40 s after a track was seen, the session of
\* the other user of the sweep still waiting for its tick
C22_Witness ==
    /\ last.op = "UpdateUserTracking" /\ last.answer = Err
    /\ ~last.stale
    /\ activeTracking[last.user] = last.pre
    /\ last.pre.LastTrack # Nil
    /\ last.pre.LastUpdated = last.at - 40000
    /\ \E e \in sweep : e.user # last.user /\ e.obj = Nil
    /\ listening_history = <<>>

\* the last step was Stop or a tick whose flush failed
FlushLost ==
    /\ last.op \in {"StopTracking", "UpdateUserTracking"}
    /\ last.fault # "none"

\* C25: a Stop or a tick whose flush fails leaves the tables as they were and
\* still makes its change in memory (Stop removes the session from the map, the
\* tick leaves the session on the track upstream reported, or on none); and the
\* Stop or tick that comes next does not write the event that was lost.
C25_FailedFlushIsFinal ==
    [][/\ (last'.op = "UpdateUserTracking" /\ last'.fault # "none") =>
           /\ UNCHANGED dbVars
           /\ last'.post.LastTrack = last'.answer
           /\ ~last'.stale => activeTracking'[last'.user] = last'.post
       /\ (last'.op = "StopTracking" /\ last'.fault # "none") =>
           /\ UNCHANGED dbVars
           /\ activeTracking'[last'.user] = Nil
       /\ (FlushLost /\ last'.op \in {"StopTracking", "UpdateUserTracking"}) =>
           \/ UNCHANGED listening_history
           \/ listening_history' # Append(listening_history,
                                          [user_id |-> last.user,
                                           track_id |-> last.pre.LastTrack.ID,
                                           played_at |-> last.pre.SessionStart,
                                           listened_duration_ms |-> 0])
      ]_vars

\* C24: a live flush or a sync save in which a statement fails (BeginTx, an
\* artist upsert, the album upsert, the track upsert, a track_artists insert,
\* the listening_history insert or Commit) leaves every table as it was; one
\* in which no statement fails adds the event's row.
C24_RecordEventAtomic ==
    [][/\ (/\ last'.op = "UpdateUserTracking"
           /\ last'.fault \in FaultPoints \ {"none"}) => UNCHANGED dbVars
       /\ (/\ last'.op = "ForceFullSync"
           /\ last'.fault.p \in FaultPoints \ {"none"}) => UNCHANGED dbVars
       /\ (/\ last'.op = "UpdateUserTracking"
           /\ last'.fault = "none"
           /\ SessionFlushes(last'.pre)
           /\ TickFlushes(last'.pre, last'.answer)) =>
              /\ Len(listening_history') = Len(listening_history) + 1
              /\ last'.pre.LastTrack.ID \in DOMAIN tracks'
      ]_vars

\* the flush of track B (two artists) fails at a track_artists insert after a
\* sync had stored track A: A's rows are all there is
C24_Witness ==
    /\ last.op = "UpdateUserTracking" /\ last.fault = "link"
    /\ last.pre.LastTrack # Nil /\ last.pre.LastTrack.ID = B
    /\ last.pre.TotalPlayTime >= MinPlayTimeMs
    /\ last.answer = Nil
    /\ DOMAIN tracks = {A}
    /\ DOMAIN albums = {<<"al", "A">>}
    /\ DOMAIN artists = {<<"ar1">>}
    /\ track_artists = {<<A, <<"ar1">>>>}
    /\ Len(listening_history) = 1
    /\ [msg |-> "Error saving listening session", user |-> last.user, track |-> B] \in log

\* C30: a tick runs at a time not earlier than the session's lastUpdated and
\* leaves lastUpdated at that time (or as it was, when upstream failed); the
\* sweep holds a session once, and the tick takes it out of the sweep; and no
\* step moves the lastUpdated of a user's session back.
C30_TicksInOrder ==
    [][/\ \A u \in Users :
              (activeTracking[u] # Nil /\ activeTracking'[u] # Nil) =>
                  activeTracking'[u].LastUpdated >= activeTracking[u].LastUpdated
       /\ last'.op = "UpdateUserTracking" =>
              /\ last'.at >= last'.pre.LastUpdated
              /\ last'.post.LastUpdated >= last'.pre.LastUpdated
              /\ last'.answer # Err => last'.post.LastUpdated = last'.at
              /\ \E e \in sweep : Target(e) = last'.pre /\ sweep' = sweep \ {e}
              /\ \A e \in sweep' : e.user # last'.user
      ]_vars

\* a session ticked at 40,000 ms is ticked again at 80,000 ms while the other
\* user's session, ticked at 40,000 ms, still waits in the same sweep
C30_Witness ==
    /\ last.op = "UpdateUserTracking" /\ last.answer # Err /\ ~last.stale
    /\ last.pre.LastUpdated = 40000 /\ last.at = 80000
    /\ activeTracking[last.user].LastUpdated = 80000
    /\ \E e \in sweep : /\ e.user # last.user /\ e.obj = Nil
                         /\ activeTracking[e.user].LastUpdated = 40000

\* C32: StartTracking(u) leaves in the map, for u, a session that is active, has
\* no current track and no accumulated play time and starts at the call's time;
\* the sessions of the other users stay as they were; a session u already had is
\* replaced without being flushed: no table and no log line changes.
C32_StartReplaces ==
    [][last'.op = "StartTracking" =>
          /\ activeTracking'[last'.user] =
                 [UserID |-> last'.user, SpotifyToken |-> Token(last'.user),
                  LastTrack |-> Nil, SessionStart |-> now, TotalPlayTime |-> 0,
                  LastUpdated |-> now, IsActive |-> TRUE]
          /\ \A v \in Users \ {last'.user} : activeTracking'[v] = activeTracking[v]
          /\ UNCHANGED <<dbVars, log>>
      ]_vars

\* a session that had played A for 40 s is replaced and nothing is stored
C32_Witness ==
    /\ last.op = "StartTracking" /\ last.pre # Nil
    /\ last.pre.LastTrack # Nil /\ last.pre.LastTrack.ID = A
    /\ last.pre.TotalPlayTime = 40000
    /\ activeTracking[last.user].LastTrack = Nil
    /\ activeTracking[last.user].TotalPlayTime = 0
    /\ activeTracking[last.user].SessionStart = now
    /\ listening_history = <<>> /\ log = {}

\* C35: after every tick that got an answer, a session with a current track has
\* accumulated no more play time than the time from its session start to its
\* last update.
C35_PlayTimeWithinWindow ==
    (Ticked /\ last.post.LastTrack # Nil) =>
        last.post.TotalPlayTime <= last.post.LastUpdated - last.post.SessionStart

\* C33: a tick on a session the map no longer holds (stopped or replaced after
\* the sweep's snapshot) writes nothing and leaves the session object as it was;
\* and no flush adds an event for a user, track and session start that is
\* already stored.
C33_StaleTickInert ==
    [][/\ (last'.op = "UpdateUserTracking" /\ last'.stale) =>
           /\ UNCHANGED <<dbVars, log>>
           /\ last'.post = last'.pre
       /\ (last'.op \in {"UpdateUserTracking", "StopTracking"}
             /\ Len(listening_history') > Len(listening_history)) =>
           ~HasRow(listening_history, last'.user, last'.pre.LastTrack.ID,
                   last'.pre.SessionStart)
      ]_vars

-----------------------------------------------------------------------------
(* Properties of the bulk import *)

\* the validity filter as C7 states it
Accepted(r) == r.MsPlayed >= 5000 /\ r.TrackName # <<>> /\ r.ArtistName # <<>>

AcceptedOf(file) ==
    IF file.ext = "json" THEN {file.data[i] : i \in {j \in 1..Len(file.data) : Accepted(file.data[j])}}
    ELSE {}

NumAccepted(file) ==
    IF file.ext = "json" THEN Cardinality({j \in 1..Len(file.data) : Accepted(file.data[j])})
    ELSE 0

Imported == last.op = "ImportSpotifyData"

\* C7: an import counts exactly the accepted records in processed_tracks, reports
\* no error on account of a skipped record, and every row it adds to artists,
\* albums, tracks, track_artists or listening_history comes from an accepted
\* record; a file of skipped records alone changes no table.
C7_ValidityFilter ==
    Imported =>
        /\ last.result.ProcessedTracks = NumAccepted(last.file)
        /\ (last.file.ext = "json" /\ NumAccepted(last.file) = 0) =>
              /\ last.result.Errors = <<>>
              /\ Committed = last.db0
        /\ \A id \in DOMAIN artists \ DOMAIN last.db0.artists :
              \E r \in AcceptedOf(last.file) : id = generateArtistID(r.ArtistName)
        /\ \A id \in DOMAIN albums \ DOMAIN last.db0.albums :
              \E r \in AcceptedOf(last.file) : id = generateAlbumID(r.AlbumName)
        /\ \A id \in DOMAIN tracks \ DOMAIN last.db0.tracks :
              \E r \in AcceptedOf(last.file) : id = extractTrackIDFromURI(r.SpotifyTrackURI)
        /\ \A l \in track_artists \ last.db0.track_artists :
              \E r \in AcceptedOf(last.file) : l[2] = generateArtistID(r.ArtistName)
        /\ \A i \in 1..Len(listening_history) :
              i > Len(last.db0.listening_history) =>
                 \E r \in AcceptedOf(last.file) :
                    listening_history[i].track_id = extractTrackIDFromURI(r.SpotifyTrackURI)

\* a skipped record (4,999 ms, artist X) imported beside an accepted one (artist Z):
\* only the accepted one is counted and leaves rows
C7_Witness ==
    /\ Imported
    /\ Len(last.file.data) = 2
    /\ last.file.data[1].MsPlayed = 4999
    /\ last.file.data[1].ArtistName = <<"X">>
    /\ last.result.ProcessedTracks = 1
    /\ last.result.Errors = <<>>
    /\ <<"artist_", "z">> \in DOMAIN artists
    /\ <<"artist_", "x">> \notin DOMAIN artists

\* rows of listening_history with the key (user, track, played_at)
RowsWith(u, t, at) ==
    {i \in 1..Len(listening_history) :
        /\ listening_history[i].user_id = u /\ listening_history[i].track_id = t
        /\ listening_history[i].played_at = at}

\* C8: importing a file with two accepted records of the same (user, track,
\* played_at) reports processed_tracks = 2 and leaves exactly one
\* listening_history row for that key, also when the file is imported again.
C8_ScenarioC ==
    (/\ Imported /\ last.file.ext = "json" /\ last.fault = NoFault
     /\ Len(last.file.data) = 2
     /\ Accepted(last.file.data[1]) /\ Accepted(last.file.data[2])
     /\ last.file.data[1].SpotifyTrackURI = UriA /\ last.file.data[2].SpotifyTrackURI = UriA
     /\ last.file.data[1].Timestamp = TsZ /\ last.file.data[2].Timestamp = TsZ)
    => /\ last.result.ProcessedTracks = 2
       /\ Cardinality(RowsWith(last.user, A, 1000)) = 1

\* the records the last import handed to saveToDatabase
Written0 == IF last.file.ext \in {"json", "zip"} THEN processJSONFile(last.file.data) ELSE <<>>

\* a statement of the import failed for the record the fault names
RecordFailed ==
    /\ Imported
    /\ last.fault.p \in {"track", "history"}
    /\ last.fault.i \in 1..Len(Written0)
    /\ ~ParseSpotifyTimestampToLocal(Written0[last.fault.i].Timestamp).err

\* C15: when the tracks or the history statement fails for one record of an
\* import, every other accepted record with a parseable timestamp is still
\* written when the import is done: at the least its artist row is in artists.
C15_RecordFailureIsolated ==
    RecordFailed =>
        \A j \in 1..Len(Written0) :
            (j # last.fault.i /\ ~ParseSpotifyTimestampToLocal(Written0[j].Timestamp).err)
               => generateArtistID(Written0[j].ArtistName) \in DOMAIN artists

\* the write of the last import dropped an accepted record: its timestamp did
\* not parse, or its tracks or history statement failed
RecordDropped ==
    \/ RecordFailed
    \/ /\ Imported
       /\ \E j \in 1..Len(Written0) : ParseSpotifyTimestampToLocal(Written0[j].Timestamp).err

\* C16: an import whose write dropped an accepted record reports it: its error
\* list is not empty and its status is completed_with_errors.
C16_FailuresReported ==
    RecordDropped =>
        /\ Len(last.result.Errors) > 0
        /\ last.result.Status = "completed_with_errors"

-----------------------------------------------------------------------------
(* Properties of the catch-up sync *)

SyncRan == last.op \in {"ForceFullSync", "syncRecentlyPlayedTracks"} /\ last.error = "nil"

\* the positions of q holding the same history item (track id, played_at) as q[i]
SameItem(q, i, j) ==
    /\ q[i].Track # Nil /\ q[j].Track # Nil
    /\ q[i].Track.ID = q[j].Track.ID /\ q[i].PlayedAt = q[j].PlayedAt

\* rows the last sync run added for the item it
RowsAddedFor(it) ==
    CountRows(listening_history, last.user, it.Track.ID, it.PlayedAt.t)
      - CountRows(last.db0.listening_history, last.user, it.Track.ID, it.PlayedAt.t)

\* C9: within one catch-up sync run, a history item (track id, played_at) that
\* upstream returned in more than one page is kept once in the list of items to
\* save, handed to saveRecentlyPlayedTrack at most once, and gets at most one
\* listening_history row from the run.
C9_PageOverlapSavedOnce ==
    SyncRan =>
        /\ \A i, j \in 1..Len(last.run.allTracks) :
              SameItem(last.run.allTracks, i, j) => i = j
        /\ \A i, j \in 1..Len(last.run.saved) :
              SameItem(last.run.saved, i, j) => i = j
        /\ \A i \in 1..Len(last.run.fetched) :
              last.run.fetched[i].Track # Nil => RowsAddedFor(last.run.fetched[i]) <= 1

\* a run of two requests whose second page repeated an item of the first, which
\* the run then saved: one row
C9_Witness ==
    /\ SyncRan
    /\ last.run.requests = 2
    /\ \E i \in 1..PageLimit, j \in (PageLimit + 1)..Len(last.run.fetched) :
          /\ SameItem(last.run.fetched, i, j)
          /\ RowsAddedFor(last.run.fetched[i]) = 1

-----------------------------------------------------------------------------
(* Properties of the store under its three producers *)

\* C1: whatever the live flushes, sync saves and bulk imports wrote,
\* listening_history holds at most one row for each (user, track, played_at).
C1_OneRowPerTriple ==
    \A i, j \in 1..Len(listening_history) :
        (/\ listening_history[i].user_id = listening_history[j].user_id
         /\ listening_history[i].track_id = listening_history[j].track_id
         /\ listening_history[i].played_at = listening_history[j].played_at) => i = j

LiveSaved(u, t) == [msg |-> "Saved listening session", user |-> u, track |-> t] \in log
SyncSaved(u, t) == [msg |-> "Synced recently played track", user |-> u, track |-> t] \in log

RowsOf(u, t) ==
    {i \in 1..Len(listening_history) :
        listening_history[i].user_id = u /\ listening_history[i].track_id = t}

\* C2: once the live flush and the sync save have both recorded u1's play of
\* track A, the store holds exactly one listening event of A by u1.
C2_OneEventPerPlay ==
    (LiveSaved(<<"u1">>, A) /\ SyncSaved(<<"u1">>, A)) => Cardinality(RowsOf(<<"u1">>, A)) = 1

\* C13: in every committed state each listening_history row names a track that
\* has a row in tracks, whichever producer wrote it and whichever statement of
\* a producer failed.
C13_EventsReferenceTracks ==
    \A i \in 1..Len(listening_history) : listening_history[i].track_id \in DOMAIN tracks

\* a live flush whose tracks statement failed left nothing, after a sync save
\* and an earlier live flush had each committed an event with its track
C13_Witness ==
    /\ last.op \in {"StopTracking", "UpdateUserTracking"}
    /\ last.fault = "track"
    /\ RowsAdded = 0
    /\ LiveSaved(<<"u1">>, A) /\ SyncSaved(<<"u1">>, A)
    /\ Len(listening_history) = 2
    /\ A \in DOMAIN tracks

\* the scheduler's sync and the ForceFullSync request have both handled the
\* play of track t at instant at, and are done
BothSynced(u, t, at) ==
    \A p \in SyncSavers :
        /\ pc[p] = "idle" /\ loc[p].runs >= 1
        /\ loc[p].user = u /\ loc[p].track # Nil /\ loc[p].track.ID = t
        /\ loc[p].playedAt = at

\* C17: when the scheduler's sync and a ForceFullSync request have both
\* recorded the same play of a user, the store holds exactly one row for it,
\* however their existence checks and inserts interleaved.
C17_ConcurrentSaveOnce ==
    \A u \in TrackUsers, k \in 1..2 :
        BothSynced(u, IF k = 1 THEN A ELSE B, PlayedAtOf(k)) =>
            CountRows(listening_history, u, IF k = 1 THEN A ELSE B, PlayedAtOf(k)) = 1

-----------------------------------------------------------------------------
(* Properties of the artists table *)

\* C10: once an artist row holds at least one genre, no step of a live flush, a
\* sync save or a bulk import changes its genre list, however they interleave.
C10_GenresStable ==
    [][\A id \in DOMAIN artists :
          Len(artists[id].genres) > 0 =>
              (id \in DOMAIN artists' /\ artists'[id].genres = artists[id].genres)]_vars

\* C11: a write of saveArtistWithDetails whose genres check found stored genres
\* makes no GetArtistDetails request, leaves the genres and the name of the row
\* as the statement found them, and leaves its popularity equal to the popularity
\* passed in.
C11_EnrichedKeepsGenres ==
    (last.op = "ArtistWrite" /\ last.enriched) =>
        /\ last.calls = 0
        /\ last.artist \in DOMAIN last.seen
        /\ DOMAIN last.wrote = DOMAIN last.seen
        /\ last.wrote[last.artist].genres = last.seen[last.artist].genres
        /\ last.wrote[last.artist].name = last.seen[last.artist].name
        /\ last.wrote[last.artist].popularity = last.popularity

\* an artist stored with two genres and popularity 70 is enriched again with
\* popularity 50 while upstream would answer one genre
C11_Witness ==
    /\ last.op = "ArtistWrite" /\ last.enriched
    /\ last.seen[last.artist].genres = <<"pop", "rock">>
    /\ last.seen[last.artist].popularity = 70
    /\ last.answer # Err /\ last.answer.Genres = <<"rock">>
    /\ last.wrote[last.artist].genres = <<"pop", "rock">>
    /\ last.wrote[last.artist].popularity = 50
    /\ last.calls = 0

\* C23: when GetArtistDetails fails inside a save, the statement that follows
\* writes the artist's row with the name and the popularity passed in and with
\* the genres the row had (none for a new row), touches no other row, and the
\* save goes on; at its end the save commits the artist rows it wrote, the
\* album, the track, its artist links and one listening_history row for the
\* event.
C23_ArtistFailureFallsBack ==
    [][/\ (last'.op = "ArtistWrite" /\ last'.calls = 1 /\ last'.answer = Err) =>
           LET p == last'.saver
               a == loc[p].track.Artists[loc[p].i]
           IN  /\ last'.artist = a.ID
               /\ DOMAIN last'.wrote = DOMAIN last'.seen \cup {a.ID}
               /\ \A x \in DOMAIN last'.seen \ {a.ID} : last'.wrote[x] = last'.seen[x]
               /\ last'.wrote[a.ID] =
                      [name |-> a.Name,
                       genres |-> IF a.ID \in DOMAIN last'.seen
                                  THEN last'.seen[a.ID].genres ELSE <<>>,
                       popularity |-> loc[p].track.Popularity]
               /\ pc'[p] \in {"check", "finish"}
               /\ loc'[p].writes = Overlay(loc[p].writes, Written([artists |-> last'.seen],
                                                        [artists |-> last'.wrote]))
       /\ (last'.op = "FinishSave") =>
           LET p == last'.saver
               t == loc[p].track
           IN  /\ artists' = Overlay(artists, loc[p].writes)
               /\ t.Album.ID \in DOMAIN albums' /\ albums'[t.Album.ID].name = t.Album.Name
               /\ t.ID \in DOMAIN tracks' /\ tracks'[t.ID].album_id = t.Album.ID
               /\ \A i \in 1..Len(t.Artists) : <<t.ID, t.Artists[i].ID>> \in track_artists'
               /\ listening_history' =
                      Append(listening_history,
                             [user_id |-> loc[p].user, track_id |-> t.ID,
                              played_at |-> loc[p].playedAt, listened_duration_ms |-> 0])
      ]_vars

\* a live flush of track A committed after its GetArtistDetails request failed,
\* on an artist a sync save had stored with genres in between: the row keeps
\* the genres and takes the name and the popularity of the flush
C23_Witness ==
    /\ last.op = "FinishSave" /\ last.saver = "flush"
    /\ <<"ar1">> \in DOMAIN last.artists0
    /\ last.artists0[<<"ar1">>] = [name |-> <<"N">>, genres |-> <<"rock">>, popularity |-> 70]
    /\ artists[<<"ar1">>] = [name |-> <<"n", "ar1">>, genres |-> <<"rock">>, popularity |-> 50]
    /\ A \in DOMAIN tracks
    /\ \E i \in 1..Len(listening_history) :
          listening_history[i].track_id = A /\ listening_history[i].played_at = 40000

\* the saver is at a database statement or at the GetArtistDetails request
InIO(p) == pc[p] \in {"check", "write", "finish"}

\* GetActiveTrackingCount, under the read lock
GetActiveTrackingCount ==
    Cardinality({u \in Users : activeTracking[u] # Nil /\ activeTracking[u].IsActive})

Tracked == {u \in Users : activeTracking[u] # Nil}

\* C34: whenever the map lock is free, every session in the map is active, so
\* GetActiveTrackingCount is the number of users in the map; and the users in
\* the map are those started and not since stopped: StartTracking(u) adds u, a
\* StopTracking(u) that has returned removes u, no other step changes the set.
C34_CountIsTrackedUsers ==
    /\ [](LockFree => /\ \A u \in Tracked : activeTracking[u].IsActive
                      /\ GetActiveTrackingCount = Cardinality(Tracked))
    /\ [][Tracked' =
              IF last'.op = "StartTracking" THEN Tracked \cup {last'.user}
              ELSE IF (last'.op = "StopTracking" /\ LockFree')
                       \/ last'.op = "StopTrackingUnlock"
                   THEN Tracked \ {last'.user}
                   ELSE Tracked
         ]_vars

\* both users started, one stopped with a flush that stored its event
C34_Witness ==
    /\ last.op = "StopTrackingUnlock" /\ LockFree
    /\ Len(listening_history) = 1
    /\ GetActiveTrackingCount = 1
    /\ Tracked = {<<"u2">>}

LoopRunning == pc["loop"] \in {"select", "sweep"}

\* C31: once StopPeriodicTracking waits on a running loop, the loop ends; a
\* sweep in progress reaches the select again; the loop ends only from its
\* select with no session of the sweep left to update, flushing no session and
\* changing no table; and once ended it stays ended and starts no sweep.
C31_StopEndsLoop ==
    /\ ((LoopRunning /\ \E k \in Stoppers : pc[k] = "send") ~> pc["loop"] = "done")
    /\ (pc["loop"] = "sweep" ~> pc["loop"] = "select")
    /\ [][/\ (pc["loop"] # "done" /\ pc'["loop"] = "done") =>
              /\ pc["loop"] = "select" /\ sweep = {}
              /\ UNCHANGED <<activeTracking, sweep, dbVars, log>>
          /\ pc["loop"] = "done" => (pc'["loop"] = "done" /\ sweep' = sweep)
         ]_vars

\* the loop has ended and left in the map a session that had played A for 40 s;
\* nothing is stored
C31_Witness ==
    /\ pc["loop"] = "done" /\ last.op = "LoopStop"
    /\ activeTracking[<<"u1">>] # Nil
    /\ activeTracking[<<"u1">>].LastTrack # Nil
    /\ activeTracking[<<"u1">>].TotalPlayTime = 40000
    /\ listening_history = <<>> /\ log = {}

\* C36: a StopPeriodicTracking call returns only in the step in which the loop
\* receives its value and ends; at most one call ever returns; and a call that
\* waits while the loop has ended waits forever.
C36_StopBlocksWithoutLoop ==
    /\ [][\A k \in Stoppers :
              (pc[k] # "returned" /\ pc'[k] = "returned") =>
                  (pc[k] = "send" /\ pc["loop"] = "select" /\ pc'["loop"] = "done")
          ]_vars
    /\ [](Cardinality({k \in Stoppers : pc[k] = "returned"}) <= 1)
    /\ \A k \in Stoppers :
           []((pc["loop"] = "done" /\ pc[k] = "send") => [](pc[k] = "send"))

\* the first call ended the loop and returned, the second one waits
C36_Witness ==
    /\ pc["loop"] = "done"
    /\ pc["stop1"] = "returned"
    /\ pc["stop2"] = "send"

\* the requests that carried the code c and went on to ExchangeCode
Exchanging(c) ==
    {l \in log : l.msg = "Exchanging code for token..." /\ l.code = c}

\* C37: of the callback requests that carried one authorization code, at most
\* one went on to the token exchange, and all but at most one of those handled
\* so far were answered duplicate_request_ignored, whatever became of the first.
C37_OneExchangePerCode ==
    \A c \in Codes :
        /\ Cardinality(Exchanging(c)) <= 1
        /\ Cardinality({r \in Requests : /\ pc[r] # "idle" /\ loc[r].code = c
                                          /\ loc[r].status # "duplicate_request_ignored"}) <= 1

\* the exchange of the first request failed; the two other requests that came
\* with the same code are ignored as duplicates
C37_Witness ==
    /\ last.op = "SpotifyCallback" /\ last.req = "r3"
    /\ loc["r1"].code = <<"c1">> /\ loc["r1"].status = "Failed to exchange code for token"
    /\ loc["r2"].code = <<"c1">> /\ loc["r2"].status = "duplicate_request_ignored"
    /\ loc["r3"].code = <<"c1">> /\ loc["r3"].status = "duplicate_request_ignored"
    /\ Cardinality(Exchanging(<<"c1">>)) = 1

\* C29: a goroutine that is at a database statement or at an upstream request
\* does not hold the write lock of the session map, and StartTracking of any
\* user can go ahead at that moment.
C29_NoIOUnderLock ==
    \A p \in Savers :
        InIO(p) => /\ ~HoldsLock(p)
                   /\ \A u \in Users : ENABLED (LockFree /\ StartTracking(u))

\* C27: a catch-up run makes one or two page requests and fetches at most 100
\* items; it makes a second request only after a first page of 50 items, and
\* stops there whatever the second page holds, also when the last item of the
\* first page has a played_at that does not parse and the boundary stays at 0.
C27_SyncFetchBounded ==
    SyncRan =>
        /\ last.run.requests \in 1..2
        /\ Len(last.run.fetched) <= MaxFetch
        /\ Len(last.run.allTracks) <= Len(last.run.fetched)
        /\ last.run.requests = 2 => Len(last.run.fetched) >= PageLimit
        /\ Len(last.run.fetched) <= PageLimit * last.run.requests

\* 50 plays upstream, the oldest with an unparsable played_at: the second
\* request asks from boundary 0 again and gets the same page
C27_Witness ==
    /\ SyncRan
    /\ last.world.n = 50 /\ last.world.odd = "badtime" /\ last.world.oddK = 1
    /\ last.run.requests = 2
    /\ Len(last.run.fetched) = 100
    /\ Len(last.run.allTracks) = 50
    /\ last.run.fetched[50] = last.run.fetched[100]

TrackRowIs(id, name, duration, popularity) ==
    /\ id \in DOMAIN tracks
    /\ tracks[id].name = name
    /\ tracks[id].duration_ms = duration
    /\ tracks[id].popularity = popularity

\* the records of the imported file that reach the statements of saveToDatabase
ImportedRecords ==
    SelectSeq(processJSONFile(last.file.data),
              LAMBDA r : ~ParseSpotifyTimestampToLocal(r.Timestamp).err)

C38_NoRowForEmptyTrackId ==
    /\ <<>> \notin DOMAIN tracks
    /\ \A l \in track_artists : l[1] # <<>>
    /\ \A i \in 1..Len(listening_history) : listening_history[i].track_id # <<>>

-----------------------------------------------------------------------------
(* Properties of a batch *)

Reverse(q) == [i \in 1..Len(q) |-> q[Len(q) + 1 - i]]

\* the fault that meets the same record once the batch of n records is reversed
MirrorFault(f, n) == IF f.i = 0 THEN f ELSE [f EXCEPT !.i = n + 1 - f.i]

\* the events of a table, without their order of insertion
Events(h) == {h[i] : i \in 1..Len(h)}

\* the tables the save loop of the last sync leaves when it is handed the list q
SyncBatch(q, fault, ups) ==
    SaveNew([db |-> last.db0, saved |-> <<>>, logs |-> {}], last.user, q, ups, fault,
            1, Len(q)).db

\* the transaction the last import leaves when it is handed the records q
ImportBatch(q, fault) == IF Len(q) > 0 THEN saveToDatabase(last.user, q, fault) ELSE last.db0

\* C14: the listening events a batch produces do not depend on the order its
\* records are processed in: the save loop of a sync and the write of an import
\* leave the same events, and as many rows, for a list and for its reverse, the
\* same statement failing for the same record.
C14_BatchOrderIndependent ==
    /\ SyncRan =>
          \A ups \in TrackUps :
             /\ Events(SyncBatch(Reverse(last.run.allTracks),
                                 MirrorFault(last.fault, Len(last.run.allTracks)), ups)
                          .listening_history)
                  = Events(SyncBatch(last.run.allTracks, last.fault, ups).listening_history)
             /\ Len(SyncBatch(Reverse(last.run.allTracks),
                              MirrorFault(last.fault, Len(last.run.allTracks)), ups)
                       .listening_history)
                  = Len(SyncBatch(last.run.allTracks, last.fault, ups).listening_history)
             /\ SyncBatch(last.run.allTracks, last.fault, ups).listening_history
                  = listening_history
    /\ Imported =>
          /\ Events(Ended(last.db0,
                          ImportBatch(Reverse(processJSONFile(last.file.data)),
                                      MirrorFault(last.fault,
                                                  Len(processJSONFile(last.file.data)))))
                       .listening_history)
               = Events(Ended(last.db0, ImportBatch(processJSONFile(last.file.data),
                                                    last.fault)).listening_history)
          /\ Ended(last.db0, ImportBatch(processJSONFile(last.file.data), last.fault))
               = Committed

\* a sync of three plays, the history statement failing for the most recent one:
\* two rows, in either order of processing
C14_Witness ==
    /\ SyncRan
    /\ Len(last.run.allTracks) = 3
    /\ last.fault = [i |-> 1, p |-> "history"]
    /\ Len(listening_history) = Len(last.db0.listening_history) + 2
    /\ \A ups \in TrackUps :
          /\ Len(SyncBatch(Reverse(last.run.allTracks), MirrorFault(last.fault, 3), ups)
                    .listening_history) = Len(listening_history)
          /\ SyncBatch(Reverse(last.run.allTracks), MirrorFault(last.fault, 3), ups)
                .listening_history # listening_history

-----------------------------------------------------------------------------
(* Properties of ForceFullSync *)

\* C12: ForceFullSync for a user with no active session returns an error, makes
\* no upstream request, writes nothing to the tables and leaves the session map
\* as it was; for a user with an active session it returns no error and its run
\* makes its requests with that session's token.
C12_ForceFullSyncNeedsSession ==
    last.op = "ForceFullSync" =>
        /\ activeTracking = last.map0
        /\ last.map0[last.user] = Nil =>
              /\ last.error # "nil"
              /\ last.run.requests = 0
              /\ last.run.saved = <<>>
              /\ Committed = last.db0
              /\ activeTracking[last.user] = Nil
        /\ last.map0[last.user] # Nil =>
              /\ last.error = "nil"
              /\ last.run.requests >= 1
              /\ last.run.token = last.map0[last.user].SpotifyToken

\* refused although upstream holds 101 plays of the user
C12_Witness ==
    /\ last.op = "ForceFullSync"
    /\ last.map0[last.user] = Nil
    /\ last.world.n = 101
    /\ last.error = "not being tracked"
    /\ last.run.requests = 0
    /\ listening_history = <<>>
    /\ activeTracking[last.user] = Nil

=============================================================================
